---- MODULE Spec2Model ----
(***************************************************************************)
(* A model of the journal processing pipeline of knut:                     *)
(*   - lib/common/date: calendar intervals, NewPartition and Align         *)
(*   - lib/journal/process: PeriodFilter.Process                           *)
(*   - journal.RecursiveParser: the include fan-out and its join           *)
(* Dates are day numbers counted from 0001-01-01 (day 0), so that Go's     *)
(* zero time.Time is day 0 and time.Time.Before is <.                      *)
(***************************************************************************)
EXTENDS Integers, Sequences, FiniteSets, TLC

VARIABLES
    \* ---- date.Partition (SpecPartition)
    phase,      \* "input" -> "built" -> "aligned"
    span,       \* the Period handed to NewPartition
    interval,   \* the Interval handed to NewPartition
    last,       \* the truncation handed to NewPartition
    part,       \* Partition.periods as built by NewPartition
    aligned,    \* the result of the mapper Align() on every probed date
    \* ---- PeriodFilter.Process (SpecFilter)
    pf,         \* the PeriodFilter: From, To, Interval, Last
    sent,       \* the days sent on inCh so far, in order
    out,        \* the periods pushed on outCh so far, in order
    pc,         \* "pop" | "loop" | "done" (returned nil) | "failed" (returned err)
    periods,    \* local periods
    days,       \* local days: indices into sent
    current,    \* local current
    init,       \* local init
    previous,   \* local previous: index into sent, NewDay for new(ast.Day)
    latest,     \* local latest: index into sent, NilDay for nil
    day,        \* the day popped last: index into sent
    ok,         \* the ok popped last
    \* ---- RecursiveParser.Parse and FromDirectives2 (SpecParser)
    task,       \* the parse goroutines: [pc, read], read being what p.Next returned
    wg,         \* the counter of rp.wg
    closer,     \* the goroutine of Parse that closes resCh: "wait" | "close" | "closed"
    hist,       \* every value sent on resCh so far, in order
    nrecv,      \* how many of them the consumer has received
    closed,     \* resCh is closed
    panicked,   \* a send on the closed resCh has happened
    ctxDone,    \* the context is cancelled
    consumer,   \* FromDirectives2: [pc, ast, ret, err], err an index into hist
    \* ---- the balance stage (SpecBalance)
    bal,        \* the running map (account, commodity) -> quantity
    acct,       \* the account-lifecycle table: "unopened" | "open" | "closed"
    berr,       \* the error the stage has signalled, "none" if none
    bday,       \* the position of the current day in the day sequence, 0 if idle
    bphase,     \* what the current day has reached: 1 openings .. 4 closings
    blast,      \* the directive processed last
    bsteps,     \* the number of directives processed
    \* ---- ast.AST (SpecAst)
    astDays,    \* AST.Days: date -> Day, the lists of a Day holding directive ids
    astAdded,   \* every directive passed to an Add method, in order: [kind, date]
    astSorted,  \* the result of SortedDays
    astPc,      \* "build" | "sorted"
    \* ---- report.Report (SpecReport)
    nodes,      \* the Nodes made so far: [Account, children, valued, other, weight]
    cache,      \* Report.cache: account -> position in nodes
    inserted,   \* the calls of Report.Insert so far: [account, valued, v]
    rpc,        \* "build" | "compute" (ComputeWeights runs) | "done"
    cw,         \* per Node, its computeWeights task: "none" | "start" | "wait" | "done"
    \* ---- parser.Parser.ParseFile (SpecSyntax)
    srcLines,   \* the lines the text is made of
    srcText,    \* the text handed to the parser, a sequence of characters
    offset,     \* the scanner's position: the number of characters read
    file,       \* the File being built: [Start, End, Directives]
    perr,       \* the returned Error as its chain, the outermost first; <<>> for nil
    spc,        \* "parse" | "done" (returned nil) | "failed" (returned an Error)
    \* ---- scanner.Scanner and journal.Parser (SpecScanner, SpecAddons)
    text,       \* Scanner.text: the units a rune gets decoded from, in order
    scanner,    \* the Scanner: [reader, current, Location]
    call,       \* the ConsumeWhile or ConsumeUntil that runs: [op, pred, by, steps, avail]
    captured,   \* the substring taken last: [op, start, end, panic]
    ppc,        \* Parser.Next: "idle" | "loop" | "switch" | "comment"
    nextRet,    \* what Parser.Next returned last: "none" | "io.EOF" | "error"
    annots,     \* the annotations in front of a directive, in order
    addon,      \* the addon of parseAddons: [accrual, targets], 0 for nil
    addonErr,   \* the error parseAddons returned, "nil" if none
    addonPc,    \* "parse" | "done"
    addonPos    \* the annotations parseAddons has read

partVars == <<phase, span, interval, last, part, aligned>>

filterVars == <<pf, sent, out, pc, periods, days, current, init, previous,
                latest, day, ok>>

parserVars == <<task, wg, closer, hist, nrecv, closed, panicked, ctxDone,
                consumer>>

balVars == <<bal, acct, berr, bday, bphase, blast, bsteps>>

\* The variables of the stages modelled after the parser.
astVars == <<astDays, astAdded, astSorted, astPc>>

reportVars == <<nodes, cache, inserted, rpc, cw>>

syntaxVars == <<srcLines, srcText, offset, file, perr, spc>>

scannerVars == <<text, scanner, call, captured, ppc, nextRet>>

addonVars == <<annots, addon, addonErr, addonPc, addonPos>>

scanVars == <<scannerVars, addonVars>>

restVars == <<balVars, astVars, reportVars, syntaxVars, scanVars>>

\* What an action of one of these stages leaves alone.
balOthers == <<partVars, filterVars, parserVars, astVars, reportVars, syntaxVars,
              scanVars>>
astOthers == <<partVars, filterVars, parserVars, balVars, reportVars, syntaxVars,
              scanVars>>
reportOthers == <<partVars, filterVars, parserVars, balVars, astVars, syntaxVars,
              scanVars>>
syntaxOthers == <<partVars, filterVars, parserVars, balVars, astVars, reportVars,
                 scanVars>>
scanOthers == <<partVars, filterVars, parserVars, balVars, astVars, reportVars,
               syntaxVars>>

vars == <<partVars, filterVars, parserVars, restVars>>

-----------------------------------------------------------------------------
(* Bounds of the model.                                                    *)

\* span.Start ranges over WindowStart .. WindowStart + StartSpread
StartSpread == 8
\* span.End ranges up to WindowStart + WindowLen
WindowLen == 44
\* span.End may lie up to Inverted days before span.Start - 1
Inverted == 2
\* last ranges over 0 .. MaxLast
MaxLast == 3
\* dates are probed from Margin days before the window to Margin days after
Margin == 2
\* the input of PeriodFilter.Process holds at most MaxDays days
MaxDays == 3
\* the days are dated FilterStart .. FilterStart + FilterSpan
FilterSpan == 6
\* PeriodFilter.Last ranges over 0 .. MaxFilterLast
MaxFilterLast == 2
\* PeriodFilter.To is ToNear or ToFar days after FilterStart, or zero
ToNear == 3
ToFar == 9
\* PeriodFilter.From is zero or FromOffset days after FilterStart
FromOffset == 2
\* at most MaxTasks files are parsed: the root and the includes
MaxTasks == 3
\* p.Next returns at most MaxItems directives, includes or errors, all files
\* taken together
MaxItems == 5
\* the capacity of resCh, which is 1000 in Parse, scaled down
ResChCap == 2
\* Report.Insert is called at most MaxInserts times
MaxInserts == 3
\* at most MaxAdds directives are added to an AST
MaxAdds == 3
\* the balance stage processes at most MaxBalSteps directives in all
MaxBalSteps == 6

-----------------------------------------------------------------------------
(* The calendar behind time.Time (proleptic Gregorian, UTC midnight).      *)

ZeroTime == 0

IsZero(t) == t = ZeroTime

Min(a, b) == IF a < b THEN a ELSE b
Max(a, b) == IF a < b THEN b ELSE a

IsLeap(y) == (y % 4 = 0 /\ y % 100 # 0) \/ y % 400 = 0

DaysBeforeYear(y) ==
    365 * (y - 1) + ((y - 1) \div 4) - ((y - 1) \div 100) + ((y - 1) \div 400)

DaysBeforeMonth(y, m) ==
    LET cum == <<0, 31, 59, 90, 120, 151, 181, 212, 243, 273, 304, 334>>
    IN  cum[m] + (IF m > 2 /\ IsLeap(y) THEN 1 ELSE 0)

\* time.Date(year, month, day, 0, 0, 0, 0, time.UTC), which normalises a
\* month outside 1..12 and a day outside the month.
Date(y, m, d) ==
    LET yy == y + ((m - 1) \div 12)
        mm == ((m - 1) % 12) + 1
    IN  DaysBeforeYear(yy) + DaysBeforeMonth(yy, mm) + (d - 1)

Year(t) ==
    CHOOSE y \in ((t \div 366) + 1) .. ((t \div 365) + 1) :
        DaysBeforeYear(y) <= t /\ t < DaysBeforeYear(y + 1)

Month(t) ==
    LET y == Year(t)
        yd == t - DaysBeforeYear(y)
    IN  CHOOSE m \in 1..12 :
            /\ DaysBeforeMonth(y, m) <= yd
            /\ (m = 12 \/ yd < DaysBeforeMonth(y, m + 1))

\* time.Weekday: Sunday = 0 ... Saturday = 6; 0001-01-01 is a Monday.
Weekday(t) == (t + 1) % 7

\* t.AddDate(0, 0, n)
AddDays(t, n) == t + n

-----------------------------------------------------------------------------
(* date.Interval, StartOf, EndOf                                           *)

Once == 0
Daily == 1
Weekly == 2
Monthly == 3
Quarterly == 4
Yearly == 5

Intervals == Once .. Yearly

StartOf(d, p) ==
    CASE p = Once -> d
      [] p = Daily -> d
      [] p = Weekly -> AddDays(d, 0 - ((Weekday(d) + 6) % 7))
      [] p = Monthly -> Date(Year(d), Month(d), 1)
      [] p = Quarterly -> Date(Year(d), (((Month(d) - 1) \div 3) * 3) + 1, 1)
      [] p = Yearly -> Date(Year(d), 1, 1)
      [] OTHER -> d

EndOf(d, p) ==
    CASE p = Once -> d
      [] p = Daily -> d
      [] p = Weekly -> AddDays(d, (7 - Weekday(d)) % 7)
      [] p = Monthly ->
            LET s == StartOf(d, Monthly)
            IN  Date(Year(s), Month(s) + 1, 0)
      [] p = Quarterly ->
            LET s == StartOf(d, Quarterly)
            IN  AddDays(Date(Year(s), Month(s) + 3, 1), -1)
      [] p = Yearly -> Date(Year(d), 12, 31)
      [] OTHER -> d

\* Period.Contains
Contains(p, t) == ~(t < p.Start) /\ ~(t > p.End)

-----------------------------------------------------------------------------
(* date.NewPartition and Partition.Align                                   *)

Reverse(s) == [i \in 1..Len(s) |-> s[Len(s) + 1 - i]]

\* PartitionLoop without the clipping of start to period.Start.
RECURSIVE PartitionLoopNoClip(_, _, _, _, _)
PartitionLoopNoClip(period, iv, n, end, counter) ==
    IF ~(end < period.Start) /\ ~(counter >= n /\ n > 0)
    THEN LET start == StartOf(end, iv)
         IN  <<[Start |-> start, End |-> end]>>
                 \o PartitionLoopNoClip(period, iv, n, AddDays(start, -1), counter + 1)
    ELSE <<>>

\* PartitionLoop stopping one period late (counter > last).
RECURSIVE PartitionLoopLate(_, _, _, _, _)
PartitionLoopLate(period, iv, n, end, counter) ==
    IF ~(end < period.Start) /\ ~(counter > n /\ n > 0)
    THEN LET s0 == StartOf(end, iv)
             start == IF s0 < period.Start THEN period.Start ELSE s0
         IN  <<[Start |-> start, End |-> end]>>
                 \o PartitionLoopLate(period, iv, n, AddDays(start, -1), counter + 1)
    ELSE <<>>

\* The for loop of NewPartition: walks backward from period.End, one
\* interval at a time, and returns the periods in the order it appends them.
RECURSIVE PartitionLoop(_, _, _, _, _)
PartitionLoop(period, iv, n, end, counter) ==
    IF ~(end < period.Start) /\ ~(counter >= n /\ n > 0)
    THEN LET s0 == StartOf(end, iv)
             start == IF s0 < period.Start THEN period.Start ELSE s0
         IN  <<[Start |-> start, End |-> end]>>
                 \o PartitionLoop(period, iv, n, AddDays(start, -1), counter + 1)
    ELSE <<>>

\* The End of the leading period NewPartition appends before reversing.
BeforePeriodEnd(period) == AddDays(period.Start, -1)

NewPartitionPeriods(period, iv, n) ==
    LET body == IF iv = Once THEN <<period>>
                ELSE PartitionLoop(period, iv, n, period.End, 0)
    IN  Reverse(body \o <<[Start |-> ZeroTime, End |-> BeforePeriodEnd(period)]>>)

\* Partition.Size
Size(ps) == Len(ps) - 1

\* Partition.StartDates and Partition.EndDates
StartDates(ps) == [i \in 1..(Len(ps) - 1) |-> ps[i + 1].Start]
EndDates(ps) == [i \in 1..(Len(ps) - 1) |-> ps[i + 1].End]

\* sort.Search(n, f) with f(i) == !periods[i].End.Before(d); indices are
\* 0-based as in Go, ps is 1-based.
RECURSIVE SearchLoop(_, _, _, _)
SearchLoop(ps, d, i, j) ==
    IF i < j
    THEN LET h == (i + j) \div 2
         IN  IF ~(~(ps[h + 1].End < d))
             THEN SearchLoop(ps, d, h + 1, j)
             ELSE SearchLoop(ps, d, i, h)
    ELSE i

\* The mapper returned by Partition.Align, applied to d.
Align(ps, d) ==
    LET index == SearchLoop(ps, d, 0, Len(ps))
    IN  IF index < Len(ps) THEN ps[index + 1].End ELSE ZeroTime

-----------------------------------------------------------------------------
(* The variables of one component while another component is modelled.     *)

NilDay == 0 - 1
NewDay == 0

PartitionIdle ==
    /\ phase = "idle"
    /\ span = [Start |-> ZeroTime, End |-> ZeroTime]
    /\ interval = Once
    /\ last = 0
    /\ part = <<>>
    /\ aligned = <<>>

FilterIdle ==
    /\ pf = [From |-> ZeroTime, To |-> ZeroTime, Interval |-> Once, Last |-> 0]
    /\ sent = <<>>
    /\ out = <<>>
    /\ pc = "idle"
    /\ periods = <<>>
    /\ days = <<>>
    /\ current = 0
    /\ init = FALSE
    /\ previous = NilDay
    /\ latest = NilDay
    /\ day = NilDay
    /\ ok = FALSE

ParserIdle ==
    /\ task = <<>>
    /\ wg = 0
    /\ closer = "idle"
    /\ hist = <<>>
    /\ nrecv = 0
    /\ closed = FALSE
    /\ panicked = FALSE
    /\ ctxDone = FALSE
    /\ consumer = [pc |-> "idle", ast |-> <<>>, ret |-> "none", err |-> 0]

NoDirective == [kind |-> "none"]

BalanceIdle ==
    /\ bal = <<>>
    /\ acct = <<>>
    /\ berr = "none"
    /\ bday = 0
    /\ bphase = 0
    /\ blast = NoDirective
    /\ bsteps = 0

AstIdle ==
    /\ astDays = <<>>
    /\ astAdded = <<>>
    /\ astSorted = <<>>
    /\ astPc = "idle"

ReportIdle ==
    /\ nodes = <<>>
    /\ cache = <<>>
    /\ inserted = <<>>
    /\ rpc = "idle"
    /\ cw = <<>>

SyntaxIdle ==
    /\ srcLines = <<>>
    /\ srcText = <<>>
    /\ offset = 0
    /\ file = <<>>
    /\ perr = <<>>
    /\ spc = "idle"

ScannerIdle ==
    /\ text = <<>>
    /\ scanner = <<>>
    /\ call = <<>>
    /\ captured = <<>>
    /\ ppc = "idle"
    /\ nextRet = "none"
    /\ annots = <<>>
    /\ addon = <<>>
    /\ addonErr = "nil"
    /\ addonPc = "idle"
    /\ addonPos = 0

RestIdle == BalanceIdle /\ AstIdle /\ ReportIdle /\ SyntaxIdle /\ ScannerIdle

-----------------------------------------------------------------------------
(* SpecPartition: NewPartition on every span, interval and last of the     *)
(* bounded input sets, then the alignment of every probed date.            *)

WindowStart == Date(2021, 12, 25)
WindowEnd == WindowStart + WindowLen

Probes == (WindowStart - Inverted - Margin) .. (WindowEnd + Margin)

InitPartition ==
    /\ phase = "input"
    /\ \E s \in WindowStart .. (WindowStart + StartSpread) :
         \E e \in (s - 1 - Inverted) .. WindowEnd :
            span = [Start |-> s, End |-> e]
    /\ interval \in Intervals
    /\ last \in 0 .. MaxLast
    /\ part = <<>>
    /\ aligned = <<>>
    /\ FilterIdle
    /\ ParserIdle
    /\ RestIdle

\* partition := date.NewPartition(period, interval, last)
DoNewPartition ==
    /\ phase = "input"
    /\ ~IsZero(span.Start)          \* NewPartition panics on a zero Start
    /\ part' = NewPartitionPeriods(span, interval, last)
    /\ phase' = "built"
    /\ UNCHANGED <<span, interval, last, aligned, filterVars, parserVars, restVars>>

\* the mapper partition.Align() applied to the date of every key
DoAlign ==
    /\ phase = "built"
    /\ aligned' = [d \in Probes |-> Align(part, d)]
    /\ phase' = "aligned"
    /\ UNCHANGED <<span, interval, last, part, filterVars, parserVars, restVars>>

NextPartition == DoNewPartition \/ DoAlign

SpecPartition == InitPartition /\ [][NextPartition]_vars

-----------------------------------------------------------------------------
(* Claims about date.NewPartition and Partition.Align (SpecPartition).     *)

Built == phase \in {"built", "aligned"}

\* The number of interval buckets that meet [period.Start, period.End].
Buckets(period, iv) ==
    Cardinality({EndOf(d, iv) : d \in period.Start .. period.End})

\* C3: with no truncation (last = 0), a non-zero Start <= End and an
\* interval in Daily..Yearly, the reporting periods (all periods after the
\* leading 'before' period) are contiguous, the first starts at span.Start
\* and the last ends at span.End: they cover [Start, End] with no gap and
\* no overlap.
C3_Contiguous ==
    (Built /\ interval \in Daily..Yearly /\ last = 0
           /\ ~IsZero(span.Start) /\ span.Start <= span.End)
    => /\ Len(part) >= 2
       /\ part[2].Start = span.Start
       /\ part[Len(part)].End = span.End
       /\ \A i \in 2..Len(part) : part[i].Start <= part[i].End
       /\ \A i \in 2..(Len(part) - 1) : part[i + 1].Start = AddDays(part[i].End, 1)
       /\ \A d \in span.Start .. span.End :
            Cardinality({i \in 2..Len(part) : Contains(part[i], d)}) = 1

C3_Witness ==
    /\ Built /\ interval = Monthly /\ last = 0
    /\ span.Start <= span.End
    /\ Len(part) >= 4
    /\ part[2].Start # StartOf(part[2].Start, Monthly)

\* C4: for every partition (any interval, any last) and every date d in
\* [span.Start, span.End], Align(d) is the End of a period of the partition
\* that contains d; for d before span.Start it is the End of the leading
\* 'before' period.
C4_AlignContains ==
    phase = "aligned"
    => \A d \in Probes :
         /\ (span.Start <= d /\ d <= span.End)
              => \E i \in 1..Len(part) :
                    /\ aligned[d] = part[i].End
                    /\ part[i].Start <= d /\ d <= part[i].End
         /\ d < span.Start => aligned[d] = part[1].End

\* C5: Align(d) is the End of the first period (the 'before' period
\* included) whose End is on or after d, and the zero time exactly when d is
\* after the End of the last period; the period Ends are strictly ascending.
C5_AlignFirstEnd ==
    phase = "aligned"
    => /\ \A i \in 1..(Len(part) - 1) : part[i].End < part[i + 1].End
       /\ \A d \in Probes :
            LET hits == {i \in 1..Len(part) : part[i].End >= d}
            IN  /\ hits # {}
                  => aligned[d] = part[CHOOSE i \in hits : \A j \in hits : i <= j].End
                /\ IsZero(aligned[d]) <=> d > part[Len(part)].End

\* C6: for interval # Once and last = N > 0, NewPartition keeps exactly
\* min(N, K) reporting periods, K being the number of periods of the
\* untruncated partition; they are the most recent ones (the last of them
\* ends at span.End), and exactly one leading 'before' period is prepended:
\* Size() = min(N, K), and EndDates() and StartDates() have that length.
C6_Truncation ==
    (Built /\ interval # Once /\ last > 0)
    => LET full == NewPartitionPeriods(span, interval, 0)
           K == Size(full)
           keep == Min(last, K)
       IN  /\ K = (IF span.Start <= span.End THEN Buckets(span, interval) ELSE 0)
           /\ Size(part) = keep
           /\ Len(EndDates(part)) = keep
           /\ Len(StartDates(part)) = keep
           /\ part[1] = [Start |-> ZeroTime, End |-> AddDays(span.Start, -1)]
           /\ \A i \in 1..keep : part[1 + i] = full[1 + K - keep + i]
           /\ keep > 0 => part[Len(part)].End = span.End

C6_Witness ==
    /\ Built /\ interval = Weekly /\ last = 2
    /\ Size(NewPartitionPeriods(span, interval, 0)) >= 4
    /\ Size(part) = 2

-----------------------------------------------------------------------------
(* lib/journal/process: PeriodFilter.Process                               *)
(*                                                                         *)
(* A day is known by its position in the input (sent); the Amounts and     *)
(* the Value of day i are the snapshot i, and the snapshot NewDay is the   *)
(* empty one of new(ast.Day).                                              *)

\* date.Today(), used when PeriodFilter.To is zero
Today == Date(2022, 1, 6)

\* date.Periods(t0, t1, p): the periods of interval p from the one that
\* contains t0 to the one that contains t1.
RECURSIVE PeriodsFrom(_, _, _)
PeriodsFrom(t, t1, p) ==
    IF ~(t > t1)
    THEN <<[Start |-> StartOf(t, p), End |-> EndOf(t, p)]>>
             \o PeriodsFrom(AddDays(EndOf(t, p), 1), t1, p)
    ELSE <<>>

Periods(t0, t1, p) ==
    IF p = Once
    THEN (IF t0 < t1 THEN <<[Start |-> t0, End |-> t1]>> ELSE <<>>)
    ELSE PeriodsFrom(t0, t1, p)


\* PeriodFilter.computeDates(t)
ComputeDates(f, t) ==
    LET from == IF f.From < t THEN t ELSE f.From
        to == IF IsZero(f.To) THEN Today ELSE f.To
        dates == Periods(from, to, f.Interval)
        n == IF Len(dates) < f.Last THEN Len(dates) ELSE f.Last
    IN  IF f.Last > 0 /\ Len(dates) > f.Last
        THEN SubSeq(dates, Len(dates) - n + 1, Len(dates))
        ELSE dates

\* The test that skips a day: init is not done and the day has no transaction.
SkipsNever(in, d) == FALSE

\* if ok && !init { if len(day.Transactions) == 0 { continue } ... }
Skips(in, d) == ~in /\ d.Tx = 0

\* A loop that also emits the period that ends on the date of the day.
LoopCondInclusive(cur, ps, k, date) ==
    cur < Len(ps) /\ (~k \/ ps[cur + 1].End <= date)

\* The loop condition without the !ok that drains the periods at the end.
LoopCondNoDrain(cur, ps, k, date) ==
    cur < Len(ps) /\ k /\ ps[cur + 1].End < date

\* current < len(periods) && (!ok || periods[current].End.Before(day.Date))
LoopCond(cur, ps, k, date) ==
    cur < Len(ps) /\ (~k \/ ps[cur + 1].End < date)

\* An ast.Period that takes its PrevAmounts and PrevValues from latest.
NewPeriodPrevLatest(period, ds, lat, prev) ==
    [Period |-> period, Days |-> ds,
     Amounts |-> lat, Values |-> lat,
     PrevAmounts |-> lat, PrevValues |-> lat]

\* An ast.Period that takes its Amounts and Values from previous.
NewPeriodStale(period, ds, lat, prev) ==
    [Period |-> period, Days |-> ds,
     Amounts |-> prev, Values |-> prev,
     PrevAmounts |-> prev, PrevValues |-> prev]

\* pDay := &ast.Period{...}
NewPeriod(period, ds, lat, prev) ==
    [Period |-> period, Days |-> ds,
     Amounts |-> lat, Values |-> lat,
     PrevAmounts |-> prev, PrevValues |-> prev]

DayDate(i) == IF i \in 1..Len(sent) THEN sent[i].Date ELSE ZeroTime

FilterStart == Date(2021, 12, 29)
FilterDates == FilterStart .. (FilterStart + FilterSpan)

\* The case "monthly, last 5, no from date" of TestPeriodFilter.
TestFilter ==
    [From |-> ZeroTime, To |-> Date(2022, 1, 10), Interval |-> Monthly, Last |-> 5]
TestDates == {Date(2021, 1, 1), Date(2022, 1, 1), Date(2022, 1, 4)}

\* The dates the producer of inCh draws the days from.
InputDates(f) == IF f = TestFilter THEN TestDates ELSE FilterDates

InitFilter ==
    /\ PartitionIdle
    /\ ParserIdle
    /\ RestIdle
    /\ \/ \E from \in {ZeroTime, FilterStart + FromOffset} :
          \E to \in {ZeroTime, FilterStart + ToNear, FilterStart + ToFar} :
          \E iv \in Intervals :
          \E n \in 0 .. MaxFilterLast :
             pf = [From |-> from, To |-> to, Interval |-> iv, Last |-> n]
       \/ pf = TestFilter
    /\ sent = <<>>
    /\ out = <<>>
    /\ pc = "pop"
    /\ periods = <<>>
    /\ days = <<>>
    /\ current = 0
    /\ init = FALSE
    /\ previous = NilDay
    /\ latest = NilDay
    /\ day = NilDay
    /\ ok = FALSE

\* cpr.Pop returns a day (ok = true): the producer sends the next day of the
\* date-ascending input. Lines 34-42: a day before the first transaction is
\* skipped, the first day with a transaction computes the periods.
PopDay ==
    /\ pc = "pop"
    /\ Len(sent) < MaxDays
    /\ \E date \in InputDates(pf) : \E tx \in 0..1 :
         /\ Len(sent) > 0 => sent[Len(sent)].Date < date
         /\ LET d == [Date |-> date, Tx |-> tx]
                id == Len(sent) + 1
            IN  /\ sent' = Append(sent, d)
                /\ IF Skips(init, d)
                   THEN /\ pc' = "pop"
                        /\ UNCHANGED <<periods, previous, latest, init, day, ok>>
                   ELSE /\ pc' = "loop"
                        /\ day' = id
                        /\ ok' = TRUE
                        /\ IF ~init
                           THEN /\ periods' = ComputeDates(pf, date)
                                /\ previous' = NewDay
                                /\ latest' = id
                                /\ init' = TRUE
                           ELSE UNCHANGED <<periods, previous, latest, init>>
    /\ UNCHANGED <<pf, out, days, current, partVars, parserVars, restVars>>

\* cpr.Pop returns ok = false: the producer has closed inCh.
PopClosed ==
    /\ pc = "pop"
    /\ pc' = "loop"
    /\ ok' = FALSE
    /\ UNCHANGED <<pf, sent, out, periods, days, current, init, previous,
                   latest, day, partVars, parserVars, restVars>>

\* cpr.Pop returns the error of the cancelled context (lines 31-33).
PopCancelled ==
    /\ pc = "pop"
    /\ pc' = "failed"
    /\ UNCHANGED <<pf, sent, out, periods, days, current, init, previous,
                   latest, day, ok, partVars, parserVars, restVars>>

\* One iteration of the for loop of line 43: the push of periods[current].
Emit ==
    /\ pc = "loop"
    /\ LoopCond(current, periods, ok, DayDate(day))
    /\ out' = Append(out, NewPeriod(periods[current + 1], days, latest, previous))
    /\ days' = <<>>
    /\ previous' = latest
    /\ current' = current + 1
    /\ UNCHANGED <<pf, sent, pc, periods, init, latest, day, ok, partVars, parserVars, restVars>>

\* cpr.Push returns the error of the cancelled context (lines 52-54).
PushCancelled ==
    /\ pc = "loop"
    /\ LoopCond(current, periods, ok, DayDate(day))
    /\ pc' = "failed"
    /\ UNCHANGED <<pf, sent, out, periods, days, current, init, previous,
                   latest, day, ok, partVars, parserVars, restVars>>

\* The loop is left with ok = false: break and return nil (lines 58-60, 70).
Return ==
    /\ pc = "loop"
    /\ ~LoopCond(current, periods, ok, DayDate(day))
    /\ ~ok
    /\ pc' = "done"
    /\ UNCHANGED <<pf, sent, out, periods, days, current, init, previous,
                   latest, day, ok, partVars, parserVars, restVars>>

\* The loop is left with a day: lines 61-68, then back to cpr.Pop.
Buffer ==
    /\ pc = "loop"
    /\ ~LoopCond(current, periods, ok, DayDate(day))
    /\ ok
    /\ IF current < Len(periods)
       THEN /\ IF Contains(periods[current + 1], DayDate(day))
               THEN days' = Append(days, day) /\ UNCHANGED previous
               ELSE previous' = day /\ UNCHANGED days
            /\ latest' = day
       ELSE UNCHANGED <<days, previous, latest>>
    /\ pc' = "pop"
    /\ UNCHANGED <<pf, sent, out, periods, current, init, day, ok, partVars, parserVars, restVars>>

NextFilter ==
    \/ PopDay
    \/ PopClosed
    \/ PopCancelled
    \/ Emit
    \/ PushCancelled
    \/ Return
    \/ Buffer

SpecFilter == InitFilter /\ [][NextFilter]_vars

-----------------------------------------------------------------------------
(* Claims about PeriodFilter.Process (SpecFilter).                         *)

\* The position in the input of the first day with a transaction, 0 if none.
FirstTx ==
    LET with == {i \in 1..Len(sent) : sent[i].Tx > 0}
    IN  IF with = {} THEN 0 ELSE CHOOSE i \in with : \A j \in with : i <= j

SetMax(S) == CHOOSE x \in S : \A y \in S : y <= x

Elems(q) == {q[i] : i \in 1..Len(q)}

\* C1: for date-ascending input, the Amounts and Values of every emitted
\* period are those of the latest input day, counting from the first day
\* with a transaction, whose date is on or before the period's End; so a
\* period that received no day repeats the last known snapshot and is never
\* the empty one.
C1_CarryForward ==
    \A k \in 1..Len(out) :
        LET known == {i \in 1..Len(sent) :
                         /\ FirstTx # 0 /\ i >= FirstTx
                         /\ sent[i].Date <= out[k].Period.End}
        IN  /\ known # {}
            /\ out[k].Amounts = SetMax(known)
            /\ out[k].Values = SetMax(known)

\* The outcome of the test: 100, 100, 100, 100, 300 for the periods ending
\* 2021-09-30 .. 2022-01-31, the days of value 100, 200, 300 being 1, 2, 3.
C1_Witness ==
    /\ pc = "done"
    /\ pf = TestFilter
    /\ [i \in 1..Len(sent) |-> sent[i].Date]
          = <<Date(2021, 1, 1), Date(2022, 1, 1), Date(2022, 1, 4)>>
    /\ [k \in 1..Len(out) |-> out[k].Amounts] = <<1, 1, 1, 1, 3>>
    /\ [k \in 1..Len(out) |-> out[k].Period.End]
          = <<Date(2021, 9, 30), Date(2021, 10, 31), Date(2021, 11, 30),
              Date(2021, 12, 31), Date(2022, 1, 31)>>
    /\ out[2].Days = <<>>

\* C2: Process pushes every computed period exactly once and in ascending
\* order: the periods pushed so far are always the first `current` periods of
\* the list, and when the input held a day with a transaction and Process has
\* returned nil after the close of inCh, it has pushed the whole list,
\* periods without days and periods after the last input day included.
C2_EmitsAll ==
    /\ current <= Len(periods)
    /\ [k \in 1..Len(out) |-> out[k].Period] = SubSeq(periods, 1, current)
    /\ \A i \in 1..(Len(periods) - 1) : periods[i].End < periods[i + 1].End
    /\ (pc = "done" /\ FirstTx # 0)
         => [k \in 1..Len(out) |-> out[k].Period] = periods

C2_Witness ==
    /\ pc = "done"
    /\ FirstTx # 0
    /\ Len(out) >= 3
    /\ Len(out) = Len(periods)
    /\ \E k \in 1..Len(out) :
         /\ out[k].Days = <<>>
         /\ out[k].Period.Start > sent[Len(sent)].Date
    /\ \E k \in 1..Len(out) : out[k].Days # <<>>

\* C7: Process ignores every input day that precedes the first day with a
\* transaction: such a day is in no emitted period's Days and is never an
\* Amounts/Values or Prev snapshot; and the period list is the one computed on
\* that first transaction day from max(From, date of that day), so that no
\* period ends before it.
C7_NoEarlyStart ==
    LET f == FirstTx
        early == {i \in 1..Len(sent) : f = 0 \/ i < f}
        used == UNION {Elems(out[k].Days) \cup {out[k].Amounts, out[k].Values,
                           out[k].PrevAmounts, out[k].PrevValues} :
                       k \in 1..Len(out)}
                  \cup Elems(days) \cup {latest, previous}
    IN  /\ early \cap used = {}
        /\ init <=> f # 0
        /\ f = 0 => periods = <<>> /\ out = <<>>
        /\ f # 0 =>
             LET from == Max(pf.From, sent[f].Date)
                 to == IF IsZero(pf.To) THEN Today ELSE pf.To
                 all == Periods(from, to, pf.Interval)
             IN  /\ Len(periods) = (IF pf.Last > 0 THEN Min(pf.Last, Len(all))
                                    ELSE Len(all))
                 /\ periods = SubSeq(all, Len(all) - Len(periods) + 1, Len(all))
                 /\ \A i \in 1..Len(periods) : periods[i].End >= from

C7_Witness ==
    /\ pc = "done"
    /\ FirstTx = 2
    /\ Len(sent) = 3
    /\ pf.From > sent[1].Date
    /\ pf.From < sent[2].Date
    /\ Len(out) >= 2
    /\ out[1].PrevAmounts = NewDay

\* C24: the transactions of the input days dated before the first emitted
\* period are delivered with that period: every input day with a
\* transaction, from the first such day on, whose date is before the Start of
\* the first emitted period is among the Days of that period.
C24_EarlyTransactions ==
    Len(out) >= 1 =>
        \A i \in 1..Len(sent) :
            (sent[i].Tx > 0 /\ sent[i].Date < out[1].Period.Start)
                => i \in Elems(out[1].Days)

\* C25: for every emitted period after the first, PrevAmounts and PrevValues
\* are the Amounts and Values of the period emitted just before it; for the
\* first emitted period they are those of the latest input day, counting from
\* the first day with a transaction, dated before the period's Start, and
\* those of the empty day when there is no such day.
C25_PrevChaining ==
    \A k \in 1..Len(out) :
        IF k > 1
          THEN /\ out[k].PrevAmounts = out[k - 1].Amounts
               /\ out[k].PrevValues = out[k - 1].Values
          ELSE LET before == {i \in 1..Len(sent) :
                                 /\ FirstTx # 0 /\ i >= FirstTx
                                 /\ sent[i].Date < out[1].Period.Start}
                   want == IF before = {} THEN NewDay ELSE SetMax(before)
               IN  /\ out[1].PrevAmounts = want
                   /\ out[1].PrevValues = want

\* Three periods have been emitted: the first after two days dated before
\* its Start, the second after a day of its own.
C25_Witness ==
    /\ Len(out) >= 3
    /\ out[1].PrevAmounts = 2
    /\ sent[2].Date < out[1].Period.Start
    /\ out[2].PrevAmounts = out[1].Amounts
    /\ out[3].PrevAmounts = out[2].Amounts
    /\ out[3].PrevAmounts # out[2].PrevAmounts

-----------------------------------------------------------------------------
(* journal.RecursiveParser.Parse / parseRecursively and ast.FromDirectives2 *)
(*                                                                         *)
(* A file is known by what p.Next returns while it is parsed: "dir" (an    *)
(* Open, Close, Price, Assertion or Transaction), "cur" (a Currency),      *)
(* "inc" (an Include), "err" (a syntax error, or the error of              *)
(* ParserFromPath) and "eof". A value on resCh is [task, kind, idx], idx   *)
(* being its position in the file.                                         *)

Kinds == {"dir", "cur"}

HasRoom == (Len(hist) - nrecv) < ResChCap

Item(t) == [task |-> t, kind |-> task[t].read[Len(task[t].read)],
            idx |-> Len(task[t].read)]

\* A channel that hands out the value sent last first.
SendFront(h, x) == <<x>> \o h

\* resCh <- x: the channel hands its values out in the order of the sends.
Send(h, x) == Append(h, x)

\* A switch that takes every value that is no error for a directive.
IsDirectiveUnlessError(res) == res.kind # "err"

\* The cases *Open .. *Close of the type switch of FromDirectives2; a
\* *Currency is none of them.
IsDirective(res) == res.kind = "dir"

\* An include whose goroutine is not added to the wait group.
SpawnAddMissing(w) == w

\* rp.wg.Add(1) before the go statement of an include
SpawnAdd(w) == w + 1

\* A goroutine that ends without rp.wg.Done().
WgDoneMissing(w) == w

\* defer rp.wg.Done()
WgDone(w) == w - 1

\* An error that is never pushed.
ReportsErrorNever(done) == FALSE

\* if err != nil && ctx.Err() == nil { cpr.Push(ctx, resCh, err) }
ReportsError(done) == ~done

\* <-ctx.Done() is ready in the select of cpr.Push
CtxCancelled(done) == done

\* A task that goes on with its file after it has pushed its error.
PcAfterErrorResume == "next"

\* return err: the error ends parseRecursively, and its goroutine ends once
\* the error is pushed.
PcAfterError == "done"

InitParser ==
    /\ PartitionIdle
    /\ FilterIdle
    /\ RestIdle
    /\ task = <<[pc |-> "next", read |-> <<>>]>>
    /\ wg = 1
    /\ closer = "wait"
    /\ hist = <<>>
    /\ nrecv = 0
    /\ closed = FALSE
    /\ panicked = FALSE
    /\ ctxDone = FALSE
    /\ consumer = [pc |-> "range", ast |-> <<>>, ret |-> "none", err |-> 0]

\* The number of directives, includes and errors read so far.
RECURSIVE ItemsRead(_)
ItemsRead(ts) ==
    IF ts = <<>> THEN 0
    ELSE Cardinality({i \in 1..Len(ts[1].read) : ts[1].read[i] # "eof"})
         + ItemsRead(Tail(ts))

Reads(t, kind) == [task EXCEPT ![t].read = Append(@, kind)]

\* p.Next returns io.EOF: parseRecursively returns nil, the goroutine ends
\* with the deferred rp.wg.Done().
NextEOF ==
  \E t \in 1..Len(task) :
    /\ task[t].pc = "next"
    /\ task' = [Reads(t, "eof") EXCEPT ![t].pc = "done"]
    /\ wg' = WgDone(wg)
    /\ UNCHANGED <<closer, hist, nrecv, closed, panicked, ctxDone, consumer,
                   partVars, filterVars, restVars>>

\* p.Next (or ParserFromPath) returns an error: parseRecursively returns it
\* and the goroutine pushes it unless the context is cancelled.
NextError ==
  \E t \in 1..Len(task) :
    /\ task[t].pc = "next"
    /\ ItemsRead(task) < MaxItems
    /\ IF ReportsError(ctxDone)
       THEN /\ task' = [Reads(t, "err") EXCEPT ![t].pc = "pushErr"]
            /\ UNCHANGED wg
       ELSE /\ task' = [Reads(t, "err") EXCEPT ![t].pc = "done"]
            /\ wg' = WgDone(wg)
    /\ UNCHANGED <<closer, hist, nrecv, closed, panicked, ctxDone, consumer,
                   partVars, filterVars, restVars>>

\* p.Next returns an *Include: rp.wg.Add(1) and a new goroutine.
NextInclude ==
  \E t \in 1..Len(task) :
    /\ task[t].pc = "next"
    /\ ItemsRead(task) < MaxItems
    /\ Len(task) < MaxTasks
    /\ task' = Append(Reads(t, "inc"), [pc |-> "next", read |-> <<>>])
    /\ wg' = SpawnAdd(wg)
    /\ UNCHANGED <<closer, hist, nrecv, closed, panicked, ctxDone, consumer,
                   partVars, filterVars, restVars>>

\* p.Next returns another directive: it is to be pushed.
NextDirective ==
  \E t \in 1..Len(task) :
    /\ task[t].pc = "next"
    /\ ItemsRead(task) < MaxItems
    /\ \E kind \in Kinds :
         task' = [Reads(t, kind) EXCEPT ![t].pc = "pushDir"]
    /\ UNCHANGED <<wg, closer, hist, nrecv, closed, panicked, ctxDone, consumer,
                   partVars, filterVars, restVars>>

\* cpr.Push(ctx, resCh, d) sends d; a send on a closed channel panics.
PushDirective ==
  \E t \in 1..Len(task) :
    /\ task[t].pc = "pushDir"
    /\ closed \/ HasRoom
    /\ hist' = Send(hist, Item(t))
    /\ panicked' = (panicked \/ closed)
    /\ task' = [task EXCEPT ![t].pc = "next"]
    /\ UNCHANGED <<wg, closer, nrecv, closed, ctxDone, consumer,
                   partVars, filterVars, restVars>>

\* cpr.Push(ctx, resCh, d) returns ctx.Err(): parseRecursively returns it,
\* ctx.Err() is not nil, so nothing is pushed and the goroutine ends.
PushDirectiveCancelled ==
  \E t \in 1..Len(task) :
    /\ task[t].pc = "pushDir"
    /\ CtxCancelled(ctxDone)
    /\ task' = [task EXCEPT ![t].pc = "done"]
    /\ wg' = WgDone(wg)
    /\ UNCHANGED <<closer, hist, nrecv, closed, panicked, ctxDone, consumer,
                   partVars, filterVars, restVars>>

\* cpr.Push(ctx, resCh, err) sends the error, then the deferred rp.wg.Done().
PushError ==
  \E t \in 1..Len(task) :
    /\ task[t].pc = "pushErr"
    /\ closed \/ HasRoom
    /\ hist' = Send(hist, Item(t))
    /\ panicked' = (panicked \/ closed)
    /\ task' = [task EXCEPT ![t].pc = PcAfterError]
    /\ wg' = WgDone(wg)
    /\ UNCHANGED <<closer, nrecv, closed, ctxDone, consumer, partVars, filterVars, restVars>>

\* cpr.Push(ctx, resCh, err) returns ctx.Err(), which the goroutine drops.
PushErrorCancelled ==
  \E t \in 1..Len(task) :
    /\ task[t].pc = "pushErr"
    /\ CtxCancelled(ctxDone)
    /\ task' = [task EXCEPT ![t].pc = "done"]
    /\ wg' = WgDone(wg)
    /\ UNCHANGED <<closer, hist, nrecv, closed, panicked, ctxDone, consumer,
                   partVars, filterVars, restVars>>

\* rp.wg.Wait() returns
CloserWake ==
    /\ closer = "wait"
    /\ wg = 0
    /\ closer' = "close"
    /\ UNCHANGED <<task, wg, hist, nrecv, closed, panicked, ctxDone, consumer,
                   partVars, filterVars, restVars>>

\* the deferred close(resCh)
CloserClose ==
    /\ closer = "close"
    /\ closer' = "closed"
    /\ closed' = TRUE
    /\ UNCHANGED <<task, wg, hist, nrecv, panicked, ctxDone, consumer,
                   partVars, filterVars, restVars>>

\* The owner of the context cancels it.
Cancel ==
    /\ ~ctxDone
    /\ ctxDone' = TRUE
    /\ UNCHANGED <<task, wg, closer, hist, nrecv, closed, panicked, consumer,
                   partVars, filterVars, restVars>>

\* FromDirectives2 receives a value: an error or an unknown value ends it
\* with no AST, a directive is added to the AST.
ConsumerReceive ==
    /\ consumer.pc = "range"
    /\ nrecv < Len(hist)
    /\ nrecv' = nrecv + 1
    /\ LET res == hist[nrecv + 1]
       IN  IF IsDirective(res)
           THEN consumer' = [consumer EXCEPT !.ast = Append(@, res)]
           ELSE consumer' = [pc |-> "returned", ast |-> <<>>, ret |-> "err",
                             err |-> nrecv + 1]
    /\ UNCHANGED <<task, wg, closer, hist, closed, panicked, ctxDone,
                   partVars, filterVars, restVars>>

\* The range over results ends: resCh is closed and drained.
ConsumerEnd ==
    /\ consumer.pc = "range"
    /\ closed
    /\ nrecv = Len(hist)
    /\ consumer' = [consumer EXCEPT !.pc = "returned", !.ret = "ast"]
    /\ UNCHANGED <<task, wg, closer, hist, nrecv, closed, panicked, ctxDone,
                   partVars, filterVars, restVars>>

NextParser ==
    \/ NextEOF
    \/ NextError
    \/ NextInclude
    \/ NextDirective
    \/ PushDirective
    \/ PushDirectiveCancelled
    \/ PushError
    \/ PushErrorCancelled
    \/ CloserWake
    \/ CloserClose
    \/ Cancel
    \/ ConsumerReceive
    \/ ConsumerEnd

SpecParser == InitParser /\ [][NextParser]_vars

-----------------------------------------------------------------------------
(* Claims about RecursiveParser.Parse and FromDirectives2 (SpecParser).    *)

AllDone == \A t \in 1..Len(task) : task[t].pc = "done"

ErrorPushed == \E i \in 1..Len(hist) : hist[i].kind = "err"

\* The values task t has sent, in order.
RECURSIVE SentBy(_, _)
SentBy(h, t) ==
    IF h = <<>> THEN <<>>
    ELSE (IF h[1].task = t THEN <<h[1]>> ELSE <<>>) \o SentBy(Tail(h), t)

\* The values task t is to send for what it has read so far, the value it
\* holds in a pending push excluded.
RECURSIVE ToSend(_, _, _)
ToSend(t, r, n) ==
    IF n > Len(r) THEN <<>>
    ELSE (IF r[n] \in Kinds \cup {"err"}
          THEN <<[task |-> t, kind |-> r[n], idx |-> n]>> ELSE <<>>)
         \o ToSend(t, r, n + 1)

Delivered(t) ==
    LET all == ToSend(t, task[t].read, 1)
    IN  IF task[t].pc \in {"pushDir", "pushErr"}
        THEN SubSeq(all, 1, Len(all) - 1) ELSE all

\* C8: resCh is closed once and only after every parse task has returned,
\* the root and every include discovered transitively, in every
\* interleaving; no task sends on resCh after it has been closed.
C8_JoinThenClose ==
    /\ ~panicked
    /\ closed <=> closer = "closed"
    /\ closer # "wait" => (AllDone /\ wg = 0)
    /\ wg = Cardinality({t \in 1..Len(task) : task[t].pc # "done"})
    /\ closed => \A t \in 1..Len(task) :
                    task[t].read # <<>>
                    /\ task[t].read[Len(task[t].read)] \in {"eof", "err"} \cup Kinds

C8_Witness ==
    /\ closed
    /\ Len(task) = 3
    /\ AllDone
    /\ task[2].read[1] = "inc"
    /\ \E i \in 1..Len(hist) : hist[i].task = 3
    /\ \E i \in 1..Len(hist) : hist[i].task = 1 /\ hist[i].kind = "err"
    /\ ~ctxDone

\* C9 as stated: when a parse task reports an error, the error is pushed on
\* resCh and all sibling tasks are cancelled, so that after the first error
\* no task keeps parsing.
C9_FailFast ==
    [][ErrorPushed
         => /\ Len(task') = Len(task)
            /\ \A t \in 1..Len(task) : task'[t].read = task[t].read]_vars

\* C9 as amended: when a parse task reports an error and the context is not
\* cancelled, the error is pushed on resCh before the task ends; the
\* sibling tasks are not cancelled by it, but FromDirectives2 returns the
\* first error (or unknown value) it receives with no AST, and returns an AST
\* only when resCh was closed and every value received was a known directive:
\* the run does not produce partial results.
C9_ErrorReported ==
    /\ \A t \in 1..Len(task) :
         (task[t].pc = "done" /\ ~ctxDone
             /\ task[t].read[Len(task[t].read)] = "err")
         => \E i \in 1..Len(hist) :
               hist[i] = [task |-> t, kind |-> "err", idx |-> Len(task[t].read)]
    /\ consumer.ret = "err"
         => /\ consumer.ast = <<>>
            /\ consumer.err = nrecv
            /\ hist[nrecv].kind # "dir"
            /\ \A i \in 1..(nrecv - 1) : hist[i].kind = "dir"
    /\ consumer.ret = "ast"
         => /\ closed
            /\ consumer.ast = hist
            /\ \A i \in 1..Len(hist) : hist[i].kind = "dir"
    /\ (consumer.pc = "range" /\ nrecv > 0) => \A i \in 1..nrecv : hist[i].kind = "dir"

C9_Witness ==
    /\ consumer.ret = "err"
    /\ hist[nrecv].kind = "err"
    /\ nrecv >= 2
    /\ ~ctxDone
    /\ \E i \in (nrecv + 1)..Len(hist) :
          hist[i].kind = "dir" /\ hist[i].task # hist[nrecv].task
    /\ AllDone

\* C10 as amended: a syntax error ends only the parse of its own file: after
\* the error of a file is pushed nothing more of that file is pushed, at most
\* one error is pushed per file, and while the context is not cancelled no
\* other task is ended by it: every task, its siblings and the includes it
\* has spawned too, has pushed every directive it has parsed, in order,
\* except the one it is pushing, and ends only at its own end of file or
\* error. (A push completes only while resCh has room.)
C10_ErrorIsLocal ==
    /\ \A i \in 1..Len(hist) : \A j \in (i + 1)..Len(hist) :
          hist[i].kind = "err" => hist[j].task # hist[i].task
    /\ \A t \in 1..Len(task) :
          Cardinality({i \in 1..Len(hist) :
                          hist[i].task = t /\ hist[i].kind = "err"}) <= 1
    /\ ~ctxDone =>
          \A t \in 1..Len(task) :
             /\ SentBy(hist, t) = Delivered(t)
             /\ task[t].pc = "done"
                  => task[t].read[Len(task[t].read)] \in {"eof", "err"}

C10_Witness ==
    /\ ~ctxDone
    /\ closed
    /\ Len(task) = 3
    /\ task[1].read = <<"inc", "err">>
    /\ task[2].read = <<"inc", "dir", "eof">>
    /\ task[3].read = <<"dir", "eof">>
    /\ hist[1] = [task |-> 1, kind |-> "err", idx |-> 2]
    /\ Len(hist) = 3

\* C10 as stated: the error is local (as above) and the other tasks deliver
\* all their directives: a task that holds a parsed directive is never left
\* with a full resCh that nobody receives from, the context not being
\* cancelled.
C10_DeliversAll ==
    /\ C10_ErrorIsLocal
    /\ \A t \in 1..Len(task) :
          (task[t].pc = "pushDir" /\ ~ctxDone /\ consumer.pc = "returned")
          => HasRoom

\* C26: FromDirectives2 stops at the first error or unknown value it
\* receives and returns it with no AST: every value received before it was a
\* directive, and once FromDirectives2 has returned it receives nothing
\* more. It returns an AST only when resCh is closed and drained and every
\* value received was a directive, and the AST then holds them all.
C26_FirstErrorWins ==
    /\ [](/\ (consumer.ret = "err")
               => (/\ consumer.ast = <<>>
                   /\ consumer.err = nrecv
                   /\ ~IsDirective(hist[consumer.err])
                   /\ \A i \in 1..(consumer.err - 1) : IsDirective(hist[i]))
          /\ (consumer.ret = "ast")
               => (/\ closed
                   /\ nrecv = Len(hist)
                   /\ consumer.ast = hist
                   /\ \A i \in 1..Len(hist) : hist[i].kind = "dir"))
    /\ [][(consumer.pc = "returned")
            => (nrecv' = nrecv /\ consumer' = consumer)]_vars

\* FromDirectives2 has returned at an unknown value (a *Currency) after two
\* directives, and a value sent after it stays in the channel.
C26_Witness ==
    /\ consumer.ret = "err"
    /\ nrecv = 3
    /\ hist[nrecv].kind = "cur"
    /\ Len(hist) > nrecv

\* C28: the values of one file are received in the order of the file: of
\* two values that one task has sent, the one read earlier from the file is
\* earlier in the channel, and the consumer receives the channel's values in
\* their order, so its AST lists the directives of each file in source
\* order, in every interleaving.
C28_PerFileOrder ==
    /\ \A i, j \in 1..Len(hist) :
          (hist[i].task = hist[j].task /\ hist[i].idx < hist[j].idx) => i < j
    /\ \A t \in 1..Len(task) :
          LET sentByT == SentBy(hist, t)
          IN  sentByT = SubSeq(ToSend(t, task[t].read, 1), 1, Len(sentByT))
    /\ consumer.pc = "range" => consumer.ast = SubSeq(hist, 1, nrecv)

\* Two directives of the root file with a directive of an included file
\* between them, all three received.
C28_Witness ==
    /\ nrecv >= 3
    /\ consumer.pc = "range"
    /\ \E i, j, k \in 1..nrecv :
          /\ i < j /\ j < k
          /\ hist[i].task = 1 /\ hist[k].task = 1
          /\ hist[j].task # 1

-----------------------------------------------------------------------------
(* SpecCancel: the stages that block on channels, under one context.       *)
(* Either Parse with FromDirectives2 runs, or PeriodFilter.Process does    *)
(* (FromDirectives2 returns before the later stages start); the owner of   *)
(* the context may cancel it at any moment. The producer of inCh and the   *)
(* consumer of outCh are free to stop: PopDay, PopClosed and Emit happen   *)
(* only when they take part.                                               *)

\* The filters Process runs with under SpecCancel.
CancelFilters ==
    {TestFilter,
     [From |-> ZeroTime, To |-> FilterStart + ToFar, Interval |-> Daily,
      Last |-> 0],
     [From |-> FilterStart + FromOffset, To |-> ZeroTime, Interval |-> Weekly,
      Last |-> MaxFilterLast]}

InitCancel ==
    \/ InitParser
    \/ InitFilter /\ pf \in CancelFilters

\* cpr.Pop returns ctx.Err(): the context is cancelled.
PopCancelledCtx == ctxDone /\ PopCancelled

\* cpr.Push returns ctx.Err(): the context is cancelled.
PushCancelledCtx == ctxDone /\ PushCancelled

\* The steps a goroutine of the pipeline takes by itself.
GoroutineStep ==
    \/ NextEOF
    \/ NextError
    \/ NextInclude
    \/ NextDirective
    \/ PushDirective
    \/ PushDirectiveCancelled
    \/ PushError
    \/ PushErrorCancelled
    \/ CloserWake
    \/ CloserClose
    \/ ConsumerReceive
    \/ ConsumerEnd
    \/ PopCancelledCtx
    \/ PushCancelledCtx
    \/ Return
    \/ Buffer

NextCancel ==
    \/ NextEOF
    \/ NextError
    \/ NextInclude
    \/ NextDirective
    \/ PushDirective
    \/ PushDirectiveCancelled
    \/ PushError
    \/ PushErrorCancelled
    \/ CloserWake
    \/ CloserClose
    \/ Cancel
    \/ ConsumerReceive
    \/ ConsumerEnd
    \/ PopDay
    \/ PopClosed
    \/ PopCancelledCtx
    \/ Emit
    \/ PushCancelledCtx
    \/ Return
    \/ Buffer

\* The Go scheduler runs every goroutine that can take a step; a select with
\* a ready case returns.
SpecCancel == InitCancel /\ [][NextCancel]_vars /\ WF_vars(GoroutineStep)

-----------------------------------------------------------------------------
(* Claims about cancellation (SpecCancel).                                 *)

\* Every goroutine of the stage that runs has exited: Process has returned;
\* every parse task and the closer have ended, resCh is closed and
\* FromDirectives2 has returned.
Exited ==
    /\ pc \in {"idle", "done", "failed"}
    /\ closer = "idle" \/ (AllDone /\ closed /\ consumer.pc = "returned")

-----------------------------------------------------------------------------
(* The balance stage: the running balances, the account lifecycle and the  *)
(* assertions, over the date-ascending day sequence. Within a day the      *)
(* openings come first, then the transactions, the assertions and the      *)
(* closings. A quantity is a decimal, modelled by its integer numerator.   *)

Accounts == {"Assets:Cash", "Expenses:Food", "Equity:Opening"}
Commodities == {"CHF", "USD"}
\* the quantities of the postings, and with 0 the asserted amounts
Quantities == {0 - 1, 1}
\* the day sequence has a day for every three directives at most
MaxBalDays == MaxBalSteps \div 3

Keys == Accounts \X Commodities

\* The sum of the running balances of commodity c over the accounts of as.
RECURSIVE SumBalances(_, _, _)
SumBalances(b, as, c) ==
    IF as = {} THEN 0
    ELSE LET a == CHOOSE x \in as : TRUE
         IN  b[<<a, c>>] + SumBalances(b, as \ {a}, c)

\* An account counts as open whenever it has ever been opened.
IsOpenClosedToo(tab, a, d) == tab[a].open # 0 /\ tab[a].open <= d

\* The account is open on day d: opened on or before d and not yet closed.
IsOpen(tab, a, d) == tab[a].open # 0 /\ tab[a].open <= d /\ tab[a].close = 0

\* A posting that only books the credit side.
ApplyPostingCreditOnly(b, cr, dr, c, q) ==
    [b EXCEPT ![<<cr, c>>] = @ - q]

\* balance[credit] -= quantity; balance[debit] += quantity
ApplyPosting(b, cr, dr, c, q) ==
    [b EXCEPT ![<<cr, c>>] = @ - q, ![<<dr, c>>] = @ + q]

InitBalance ==
    /\ PartitionIdle
    /\ FilterIdle
    /\ ParserIdle
    /\ AstIdle
    /\ ReportIdle
    /\ SyntaxIdle
    /\ ScannerIdle
    /\ bal = [k \in Keys |-> 0]
    /\ acct = [a \in Accounts |-> [open |-> 0, close |-> 0]]
    /\ berr = "none"
    /\ bday = 1
    /\ bphase = 0
    /\ blast = NoDirective
    /\ bsteps = 0

\* The stage goes on: no error so far, and the input is not exhausted.
BalanceRuns == berr = "none" /\ bsteps < MaxBalSteps

\* An Open of the current day.
ProcessOpen ==
    /\ BalanceRuns
    /\ bphase <= 1
    /\ \E a \in Accounts :
         /\ acct[a].open = 0 \/ acct[a].close # 0
         /\ acct' = [acct EXCEPT ![a] = [open |-> bday, close |-> 0]]
         /\ blast' = [kind |-> "open", account |-> a]
    /\ bphase' = 1
    /\ bsteps' = bsteps + 1
    /\ UNCHANGED <<bal, berr, bday, balOthers>>

\* A posting of a transaction of the current day.
ProcessPosting ==
    /\ BalanceRuns
    /\ bphase <= 2
    /\ \E cr \in Accounts, dr \in Accounts, c \in Commodities, q \in Quantities :
         /\ blast' = [kind |-> "posting", credit |-> cr, debit |-> dr,
                      commodity |-> c, quantity |-> q]
         /\ IF IsOpen(acct, cr, bday) /\ IsOpen(acct, dr, bday)
            THEN /\ bal' = ApplyPosting(bal, cr, dr, c, q)
                 /\ UNCHANGED berr
            ELSE /\ berr' = "PostingToClosedOrUnopenedAccount"
                 /\ UNCHANGED bal
    /\ bphase' = 2
    /\ bsteps' = bsteps + 1
    /\ UNCHANGED <<acct, bday, balOthers>>

\* An Assertion of the current day.
ProcessAssertion ==
    /\ BalanceRuns
    /\ bphase <= 3
    /\ \E a \in Accounts, c \in Commodities, amount \in {0} \cup Quantities :
         /\ blast' = [kind |-> "assertion", account |-> a, commodity |-> c,
                      amount |-> amount]
         /\ berr' = IF bal[<<a, c>>] = amount THEN "none" ELSE "AssertionFailed"
    /\ bphase' = 3
    /\ bsteps' = bsteps + 1
    /\ UNCHANGED <<bal, acct, bday, balOthers>>

\* A Close of the current day.
ProcessClose ==
    /\ BalanceRuns
    /\ bphase <= 4
    /\ \E a \in Accounts :
         /\ IsOpen(acct, a, bday)
         /\ blast' = [kind |-> "close", account |-> a]
         /\ IF \A c \in Commodities : bal[<<a, c>>] = 0
            THEN /\ acct' = [acct EXCEPT ![a].close = bday]
                 /\ UNCHANGED berr
            ELSE /\ berr' = "CloseWithNonZeroBalance"
                 /\ UNCHANGED acct
    /\ bphase' = 4
    /\ bsteps' = bsteps + 1
    /\ UNCHANGED <<bal, bday, balOthers>>

\* The stage is done with the day and takes the next one.
NextDay ==
    /\ berr = "none"
    /\ bday < MaxBalDays
    /\ bday' = bday + 1
    /\ bphase' = 0
    /\ UNCHANGED <<bal, acct, berr, blast, bsteps, balOthers>>

NextBalance ==
    \/ ProcessOpen
    \/ ProcessPosting
    \/ ProcessAssertion
    \/ ProcessClose
    \/ NextDay

SpecBalance == InitBalance /\ [][NextBalance]_vars

-----------------------------------------------------------------------------
(* Claims about the balance stage (SpecBalance).                           *)

\* C12: as long as no open, close or assertion error has been raised, after
\* every prefix of the day sequence the running balances of every commodity
\* sum to exactly zero over all accounts.
C12_Conservation ==
    (bday > 0 /\ berr = "none")
    => \A c \in Commodities : SumBalances(bal, Accounts, c) = 0

C12_Witness ==
    /\ berr = "none"
    /\ bday = 2
    /\ bal[<<"Assets:Cash", "CHF">>] < 0
    /\ bal[<<"Expenses:Food", "CHF">>] > 0
    /\ bal[<<"Equity:Opening", "USD">>] # 0

\* C13: a posting is applied only if its credit and its debit account are
\* both open on that day (opened on or before the day, not closed since);
\* then the quantity leaves the credit account and reaches the debit account.
\* Otherwise PostingToClosedOrUnopenedAccount is signalled and the posting
\* changes no running balance.
C13_Lifecycle ==
    [][(bsteps' = bsteps + 1 /\ blast'.kind = "posting")
        => LET p == blast'
               opn(a) == /\ acct[a].open \in 1..bday
                         /\ acct[a].close = 0
           IN  IF opn(p.credit) /\ opn(p.debit)
               THEN /\ berr' = "none"
                    /\ \A k \in Keys :
                         bal'[k] = bal[k]
                            - (IF k = <<p.credit, p.commodity>> THEN p.quantity ELSE 0)
                            + (IF k = <<p.debit, p.commodity>> THEN p.quantity ELSE 0)
               ELSE /\ berr' = "PostingToClosedOrUnopenedAccount"
                    /\ bal' = bal]_vars

C13_Witness ==
    /\ berr = "PostingToClosedOrUnopenedAccount"
    /\ blast.kind = "posting"
    /\ acct[blast.credit].open # 0 /\ acct[blast.credit].close = 0
    /\ acct[blast.debit].close # 0
    /\ bal[<<blast.credit, blast.commodity>>] # 0

-----------------------------------------------------------------------------
(* lib/journal/ast: the day index AST.Days, the Add methods and SortedDays *)
(*                                                                         *)
(* A directive is known by its position in astAdded; the lists of a Day    *)
(* hold these positions.                                                   *)

\* The dates of the directives, not in ascending order of their use.
AstDates == {Date(2022, 1, 3), Date(2022, 1, 1), Date(2022, 1, 2)}

\* &Day{Date: d}
EmptyDay(d) ==
    [Date |-> d, Prices |-> <<>>, Assertions |-> <<>>, Values |-> <<>>,
     Openings |-> <<>>, Transactions |-> <<>>, Closings |-> <<>>]

\* A Day that is created anew on every reference.
DayAlwaysNew(ds, d) == (d :> EmptyDay(d)) @@ ds

\* AST.Day(d): the map after the call; the Day returned is its value at d.
Day(ds, d) == IF d \in DOMAIN ds THEN ds ELSE (d :> EmptyDay(d)) @@ ds

\* var d = ast.Day(x.Date); d.<list> = append(d.<list>, x)
AddTo(list, kind, d) ==
    /\ astPc = "build"
    /\ Len(astAdded) < MaxAdds
    /\ astDays' = [Day(astDays, d) EXCEPT ![d][list] = Append(@, Len(astAdded) + 1)]
    /\ astAdded' = Append(astAdded, [kind |-> kind, date |-> d])
    /\ UNCHANGED <<astSorted, astPc, astOthers>>

AddOpen == \E d \in AstDates : AddTo("Openings", "open", d)

AddPrice == \E d \in AstDates : AddTo("Prices", "price", d)

AddTransaction == \E d \in AstDates : AddTo("Transactions", "transaction", d)

AddValue == \E d \in AstDates : AddTo("Values", "value", d)

AddAssertion == \E d \in AstDates : AddTo("Assertions", "assertion", d)

AddClose == \E d \in AstDates : AddTo("Closings", "close", d)

\* The orders of the elements of q.
Orders(q) ==
    {p \in [1..Len(q) -> {q[i] : i \in 1..Len(q)}] :
        \A i, j \in 1..Len(q) : i # j => p[i] # p[j]}

\* sort.Slice(q, less), less being given as the set of the pairs it holds
\* for: what q may be afterwards. The result is sorted; the sort is not
\* stable, equal elements may come in any order.
SortSlice(q, less) ==
    {p \in Orders(q) : \A i, j \in 1..Len(p) : i < j => <<p[j], p[i]>> \notin less}

\* Transaction.Less, on the positions of two transactions: by date.
TransactionLess(i, j) == astAdded[i].date < astAdded[j].date

\* Day.Less, on the dates of two days
DayLess(d1, d2) == d1 < d2

\* A range over a map visits the keys in any order.
MapOrders(ds) ==
    {p \in [1..Cardinality(DOMAIN ds) -> DOMAIN ds] :
        \A i, j \in 1..Cardinality(DOMAIN ds) : i # j => p[i] # p[j]}

InitAst ==
    /\ PartitionIdle
    /\ FilterIdle
    /\ ParserIdle
    /\ BalanceIdle
    /\ ReportIdle
    /\ SyntaxIdle
    /\ ScannerIdle
    /\ astDays = <<>>
    /\ astAdded = <<>>
    /\ astSorted = <<>>
    /\ astPc = "build"

\* for _, day := range ast.Days { sort.Slice(day.Transactions, ...) ... }:
\* the maps the loop may leave, the days of D being still to visit.
RECURSIVE SortTransactions(_, _)
SortTransactions(ds, D) ==
    IF D = {} THEN {ds}
    ELSE LET d == CHOOSE x \in D : TRUE
         IN  UNION {SortTransactions([ds EXCEPT ![d].Transactions = p], D \ {d}) :
                       p \in SortSlice(ds[d].Transactions,
                                      {x \in (DOMAIN astAdded) \X (DOMAIN astAdded) :
                                          TransactionLess(x[1], x[2])})}

\* AST.SortedDays()
SortedDays ==
    /\ astPc = "build"
    /\ \E ds \in SortTransactions(astDays, DOMAIN astDays) :
       \E visit \in MapOrders(astDays) :
       \E sorted \in SortSlice(visit, {x \in AstDates \X AstDates :
                                          DayLess(x[1], x[2])}) :
         /\ astDays' = ds
         /\ astSorted' = [i \in 1..Len(sorted) |-> ds[sorted[i]]]
    /\ astPc' = "sorted"
    /\ UNCHANGED <<astAdded, astOthers>>

NextAst ==
    \/ AddOpen
    \/ AddPrice
    \/ AddTransaction
    \/ AddValue
    \/ AddAssertion
    \/ AddClose
    \/ SortedDays

SpecAst == InitAst /\ [][NextAst]_vars

-----------------------------------------------------------------------------
(* Claims about the day index (SpecAst).                                   *)

\* The lists of a Day and the kind of directive each holds.
DayLists ==
    {<<"Openings", "open">>, <<"Prices", "price">>,
     <<"Transactions", "transaction">>, <<"Values", "value">>,
     <<"Assertions", "assertion">>, <<"Closings", "close">>}

\* How often directive i occurs in list l of the Day of d.
Occurs(i, l, d) ==
    Cardinality({k \in 1..Len(astDays[d][l]) : astDays[d][l][k] = i})

\* C14: after any sequence of Add calls there is exactly one Day per distinct
\* directive date, holding its own date, and every directive added is once
\* in the list of its kind of the Day of its date and nowhere else (a later
\* reference to a date returns the Day made at the first one); SortedDays
\* returns each of these Days exactly once, in strictly ascending date order,
\* whatever the insertion order.
C14_DayIndex ==
    astPc # "idle" =>
      /\ DOMAIN astDays = {astAdded[i].date : i \in 1..Len(astAdded)}
      /\ \A d \in DOMAIN astDays : astDays[d].Date = d
      /\ \A i \in 1..Len(astAdded) : \A d \in DOMAIN astDays : \A l \in DayLists :
            Occurs(i, l[1], d)
              = (IF d = astAdded[i].date /\ l[2] = astAdded[i].kind THEN 1 ELSE 0)
      /\ astPc = "sorted" =>
            /\ Len(astSorted) = Cardinality(DOMAIN astDays)
            /\ \A k \in 1..Len(astSorted) :
                  /\ astSorted[k].Date \in DOMAIN astDays
                  /\ astSorted[k] = astDays[astSorted[k].Date]
            /\ \A k \in 1..(Len(astSorted) - 1) :
                  astSorted[k].Date < astSorted[k + 1].Date

\* Two dates are added in descending order, the first of them again after
\* the second, and the days are sorted.
C14_Witness ==
    /\ astPc = "sorted"
    /\ Len(astAdded) = 3
    /\ astAdded[1].date = astAdded[3].date
    /\ astAdded[2].date < astAdded[1].date
    /\ astAdded[1].kind # astAdded[3].kind
    /\ Len(astSorted) = 2

-----------------------------------------------------------------------------
(* lib/journal2/report: the report tree, Insert, Children, ComputeWeights  *)
(*                                                                         *)
(* An account is the sequence of its segments, the nil account the empty   *)
(* one. A Node is known by its position in nodes, in order of creation.    *)
(* The Amounts of a Node are kept as two sums: of the values inserted      *)
(* under a key with a valuation, and of the others.                        *)

NilAccount == <<>>

ReportAccounts ==
    {<<"Assets", "Cash">>, <<"Assets", "Bank">>, <<"Liabilities">>,
     <<"Expenses", "Food">>}

\* The names of the accounts and of their ancestors, in ascending order.
AccountNames ==
    <<<<"Assets">>, <<"Assets", "Bank">>, <<"Assets", "Cash">>,
      <<"Expenses">>, <<"Expenses", "Food">>, <<"Liabilities">>>>

\* Account.Name(), as its rank in the order of the names
Name(a) == CHOOSE i \in 1..Len(AccountNames) : AccountNames[i] = a

AccountTypes == <<"Assets", "Liabilities", "Equity", "Income", "Expenses">>

\* Account.Type(), from the first segment
Type(a) == CHOOSE i \in 1..Len(AccountTypes) : AccountTypes[i] = a[1]

\* Account.IsAL()
IsAL(a) == a[1] \in {"Assets", "Liabilities"}

\* Accounts().Ancestors(a): the chain from the top account down to a
Ancestors(a) == [i \in 1..Len(a) |-> SubSeq(a, 1, i)]

\* What Insert is called with: the key has a valuation or not, and v.
Entries ==
    {[valued |-> TRUE, v |-> 10], [valued |-> TRUE, v |-> 0 - 50],
     [valued |-> FALSE, v |-> 10]}

\* Report.AL and Report.EIE
AL == 1
EIE == 2

newNode(a) ==
    [Account |-> a, children |-> <<>>, valued |-> 0, other |-> 0, weight |-> 0]

\* A Leaf that makes a new node for the head even when there is one.
LeafAlwaysNew(ns, n, as) ==
    IF as = <<>> THEN [nodes |-> ns, leaf |-> n]
    ELSE LET id == Len(ns) + 1
             made == Append([ns EXCEPT ![n].children = (as[1] :> id) @@ @],
                            newNode(as[1]))
         IN  [nodes |-> made, leaf |-> id]

\* Node.Leaf(as), called on node n: the nodes after the call, and the leaf.
RECURSIVE Leaf(_, _, _)
Leaf(ns, n, as) ==
    IF as = <<>> THEN [nodes |-> ns, leaf |-> n]
    ELSE IF as[1] \in DOMAIN ns[n].children
         THEN Leaf(ns, ns[n].children[as[1]], Tail(as))
         ELSE LET id == Len(ns) + 1
                  made == Append([ns EXCEPT ![n].children = (as[1] :> id) @@ @],
                                 newNode(as[1]))
              IN  Leaf(made, id, Tail(as))

\* Node.Insert(k, v): n.Amounts.Add(k, v)
NodeInsert(ns, n, e) ==
    IF e.valued THEN [ns EXCEPT ![n].valued = @ + e.v]
    ELSE [ns EXCEPT ![n].other = @ + e.v]

InitReport ==
    /\ PartitionIdle
    /\ FilterIdle
    /\ ParserIdle
    /\ BalanceIdle
    /\ AstIdle
    /\ SyntaxIdle
    /\ ScannerIdle
    /\ nodes = <<newNode(NilAccount), newNode(NilAccount)>>
    /\ cache = <<>>
    /\ inserted = <<>>
    /\ rpc = "build"
    /\ cw = <<>>

\* Report.Insert(k, v)
Insert ==
    /\ rpc = "build"
    /\ Len(inserted) < MaxInserts
    /\ \E a \in ReportAccounts \cup {NilAccount}, e \in Entries :
         /\ inserted' = Append(inserted, [account |-> a, valued |-> e.valued,
                                          v |-> e.v])
         /\ IF a = NilAccount
            THEN UNCHANGED <<nodes, cache>>
            ELSE LET r == IF a \in DOMAIN cache
                          THEN [nodes |-> nodes, leaf |-> cache[a]]
                          ELSE Leaf(nodes, IF IsAL(a) THEN AL ELSE EIE,
                                    Ancestors(a))
                 IN  /\ nodes' = NodeInsert(r.nodes, r.leaf, e)
                     /\ cache' = (a :> r.leaf) @@ cache
    /\ UNCHANGED <<rpc, cw, reportOthers>>

\* compare.Ordered(x, y)
Ordered(x, y) == IF x < y THEN 0 - 1 ELSE IF x > y THEN 1 ELSE 0

\* A comparison that ranks the greater weight first.
compareNodesDescending(ns, n1, n2) ==
    IF Type(ns[n1].Account) # Type(ns[n2].Account)
    THEN Ordered(Type(ns[n1].Account), Type(ns[n2].Account))
    ELSE IF ns[n1].weight # ns[n2].weight
         THEN Ordered(ns[n2].weight, ns[n1].weight)
         ELSE Ordered(Name(ns[n1].Account), Name(ns[n2].Account))

\* compareNodes(n1, n2)
compareNodes(ns, n1, n2) ==
    IF Type(ns[n1].Account) # Type(ns[n2].Account)
    THEN Ordered(Type(ns[n1].Account), Type(ns[n2].Account))
    ELSE IF ns[n1].weight # ns[n2].weight
         THEN Ordered(ns[n1].weight, ns[n2].weight)
         ELSE Ordered(Name(ns[n1].Account), Name(ns[n2].Account))

\* The values of the map n.children
ChildNodes(ns, n) == {ns[n].children[a] : a \in DOMAIN ns[n].children}

\* dict.SortedValues(m, cmp): the values of m in an order that cmp accepts
SortedValues(vals, ns) ==
    {p \in [1..Cardinality(vals) -> vals] :
        /\ \A i, j \in 1..Cardinality(vals) : i # j => p[i] # p[j]
        /\ \A i, j \in 1..Cardinality(vals) :
              i < j => compareNodes(ns, p[i], p[j]) <= 0}

\* Node.Children(), called on node n: what it may return
Children(ns, n) == SortedValues(ChildNodes(ns, n), ns)

Abs(x) == IF x < 0 THEN 0 - x ELSE x

\* An own weight that takes the amounts without a valuation too.
OwnWeightAllKeys(node) == 0 - Abs(node.valued + node.other)

\* n.weight = 0; w := n.Amounts.SumOver(keysWithVal); n.weight -= |w|
OwnWeight(node) == 0 - Abs(node.valued)

RECURSIVE SumWeights(_, _)
SumWeights(ns, S) ==
    IF S = {} THEN 0
    ELSE LET c == CHOOSE x \in S : TRUE
         IN  ns[c].weight + SumWeights(ns, S \ {c})

\* A wait that returns at once.
WaitedNever(tasks, S) == TRUE

\* wait(): the tasks that cpr.ForAll started for the nodes of S have ended
Waited(tasks, S) == \A c \in S : tasks[c].pc = "done"

\* Report.ComputeWeights(): cpr.Parallel starts a task for each root.
ComputeWeights ==
    /\ rpc = "build"
    /\ rpc' = "compute"
    /\ cw' = [i \in 1..Len(nodes) |->
                IF i \in {AL, EIE} THEN [pc |-> "start", visits |-> 1]
                ELSE [pc |-> "none", visits |-> 0]]
    /\ UNCHANGED <<nodes, cache, inserted, reportOthers>>

\* computeWeights up to wait(): cpr.ForAll starts a task for each of
\* n.Children(), then the node's own weight is set. Without children there
\* is nothing to wait for and nothing to add: the task ends.
Fork ==
    \E n \in 1..Len(nodes) :
      /\ rpc = "compute"
      /\ cw[n].pc = "start"
      /\ \E kids \in Children(nodes, n) :
           cw' = [i \in 1..Len(nodes) |->
                    IF i = n
                    THEN [cw[i] EXCEPT !.pc = IF kids = <<>> THEN "done" ELSE "wait"]
                    ELSE IF \E k \in 1..Len(kids) : kids[k] = i
                         THEN [pc |-> "start", visits |-> cw[i].visits + 1]
                         ELSE cw[i]]
      /\ nodes' = [nodes EXCEPT ![n].weight = OwnWeight(nodes[n])]
      /\ UNCHANGED <<cache, inserted, rpc, reportOthers>>

\* computeWeights from wait() on: the weights of the children are added.
Join ==
    \E n \in 1..Len(nodes) :
      /\ rpc = "compute"
      /\ cw[n].pc = "wait"
      /\ Waited(cw, ChildNodes(nodes, n))
      /\ nodes' = [nodes EXCEPT ![n].weight = @ + SumWeights(nodes, ChildNodes(nodes, n))]
      /\ cw' = [cw EXCEPT ![n].pc = "done"]
      /\ UNCHANGED <<cache, inserted, rpc, reportOthers>>

\* The function returned by cpr.Parallel returns: both root tasks have ended.
Joined ==
    /\ rpc = "compute"
    /\ cw[AL].pc = "done" /\ cw[EIE].pc = "done"
    /\ rpc' = "done"
    /\ UNCHANGED <<nodes, cache, inserted, cw, reportOthers>>

NextReport ==
    \/ Insert
    \/ ComputeWeights
    \/ Fork
    \/ Join
    \/ Joined

SpecReport == InitReport /\ [][NextReport]_vars

-----------------------------------------------------------------------------
(* Claims about the report tree (SpecReport).                              *)

\* The accounts, nil excepted, that Insert has been called with.
InsertedAccounts ==
    {inserted[i].account : i \in 1..Len(inserted)} \ {NilAccount}

\* The node reached from node n along the chain as, 0 if the path ends early.
RECURSIVE Walk(_, _)
Walk(n, as) ==
    IF as = <<>> THEN n
    ELSE IF as[1] \in DOMAIN nodes[n].children
         THEN Walk(nodes[n].children[as[1]], Tail(as))
         ELSE 0

\* The sum of the values inserted for account a, with a valuation or without.
RECURSIVE InsertedSum(_, _, _)
InsertedSum(a, valued, i) ==
    IF i > Len(inserted) THEN 0
    ELSE (IF inserted[i].account = a /\ inserted[i].valued = valued
          THEN inserted[i].v ELSE 0) + InsertedSum(a, valued, i + 1)

\* C16: after any sequence of Insert calls, every account that received an
\* insert has a node, reached from the root of its tree (AL for asset and
\* liability accounts, EIE otherwise) by a path with one node for each of
\* its ancestors; the same node is reused by every later insert for the
\* account, so that there is one node per account and it holds everything
\* inserted for it; an insert with a nil account changes nothing.
C16_Ancestors ==
    /\ [](rpc # "idle" =>
          /\ DOMAIN cache = InsertedAccounts
          /\ \A a \in InsertedAccounts :
                LET root == IF a[1] \in {"Assets", "Liabilities"} THEN AL ELSE EIE
                IN  /\ Walk(root, Ancestors(a)) = cache[a]
                    /\ \A i \in 1..Len(a) :
                          LET n == Walk(root, SubSeq(Ancestors(a), 1, i))
                          IN  n # 0 /\ nodes[n].Account = SubSeq(a, 1, i)
                    /\ nodes[cache[a]].valued = InsertedSum(a, TRUE, 1)
                    /\ nodes[cache[a]].other = InsertedSum(a, FALSE, 1)
          /\ \A m, n \in 3..Len(nodes) :
                nodes[m].Account = nodes[n].Account => m = n
          /\ Len(nodes) = 2 + Cardinality(UNION {{SubSeq(a, 1, i) : i \in 1..Len(a)} :
                                                   a \in InsertedAccounts}))
    /\ [][(Len(inserted') > Len(inserted)
             /\ inserted'[Len(inserted')].account = NilAccount)
          => (nodes' = nodes /\ cache' = cache)]_vars

\* Assets:Cash, then Assets:Bank, then Assets:Cash again.
C16_Witness ==
    /\ Len(inserted) = 3
    /\ inserted[1].account = <<"Assets", "Cash">>
    /\ inserted[2].account = <<"Assets", "Bank">>
    /\ inserted[3].account = <<"Assets", "Cash">>
    /\ Len(nodes) = 5
    /\ nodes[cache[<<"Assets", "Cash">>]].valued = 0 - 40

\* The nodes of the subtree of n, n included.
RECURSIVE Subtree(_)
Subtree(n) ==
    {n} \cup UNION {Subtree(nodes[n].children[a]) : a \in DOMAIN nodes[n].children}

\* Minus the magnitude of what was inserted with a valuation for the account
\* of node n; nothing is ever inserted into a root.
OwnMagnitude(n) ==
    IF nodes[n].Account = NilAccount THEN 0
    ELSE 0 - Abs(InsertedSum(nodes[n].Account, TRUE, 1))

RECURSIVE SumMagnitudes(_)
SumMagnitudes(S) ==
    IF S = {} THEN 0
    ELSE LET n == CHOOSE x \in S : TRUE
         IN  OwnMagnitude(n) + SumMagnitudes(S \ {n})

\* C17: after ComputeWeights the weight of every node is minus the absolute
\* value of the sum of its own amounts that carry a valuation, plus the
\* weights of its direct children; so it is the sum over its subtree of each
\* node's own negative magnitude, and never positive.
C17_WeightFormula ==
    rpc = "done" =>
      \A n \in 1..Len(nodes) :
         /\ nodes[n].weight
              = OwnMagnitude(n)
                + SumWeights(nodes, {nodes[n].children[a] : a \in DOMAIN nodes[n].children})
         /\ nodes[n].weight = SumMagnitudes(Subtree(n))
         /\ nodes[n].weight <= 0

\* Assets:Cash -50, Assets:Bank 10 and an amount without valuation: the
\* weights are -50, -10 and, for Assets and the root, -60.
C17_Witness ==
    /\ rpc = "done"
    /\ Len(nodes) = 5
    /\ nodes[AL].weight = 0 - 60
    /\ \E n \in 3..Len(nodes) : nodes[n].weight = 0 - 50 /\ nodes[n].other # 0
    /\ \E n \in 3..Len(nodes) : nodes[n].weight = 0 - 10

\* C18: Children() returns the children sorted by account type, then by
\* ascending weight, then by account name: of two children of one type the
\* one with the more negative weight comes first; the order is total, there
\* is one result only.
C18_ChildrenOrder ==
    rpc # "idle" =>
      \A n \in 1..Len(nodes) :
         /\ Cardinality(Children(nodes, n)) = 1
         /\ \A p \in Children(nodes, n) :
               /\ {p[i] : i \in 1..Len(p)}
                    = {nodes[n].children[a] : a \in DOMAIN nodes[n].children}
               /\ Len(p) = Cardinality(DOMAIN nodes[n].children)
               /\ \A i, j \in 1..Len(p) :
                     i < j =>
                       LET x == nodes[p[i]]
                           y == nodes[p[j]]
                       IN  \/ Type(x.Account) < Type(y.Account)
                           \/ /\ Type(x.Account) = Type(y.Account)
                              /\ x.weight < y.weight
                           \/ /\ Type(x.Account) = Type(y.Account)
                              /\ x.weight = y.weight
                              /\ Name(x.Account) < Name(y.Account)

\* Under Assets, Assets:Cash weighs -50 and Assets:Bank -10: Cash comes
\* first, against the order of the names.
C18_Witness ==
    /\ rpc = "done"
    /\ <<"Assets", "Cash">> \in DOMAIN cache
    /\ <<"Assets", "Bank">> \in DOMAIN cache
    /\ nodes[cache[<<"Assets", "Cash">>]].weight = 0 - 50
    /\ nodes[cache[<<"Assets", "Bank">>]].weight = 0 - 10
    /\ Children(nodes, nodes[AL].children[<<"Assets">>])
         = {<<cache[<<"Assets", "Cash">>], cache[<<"Assets", "Bank">>]>>}

\* C19: in every interleaving of ComputeWeights no node is visited by more
\* than one task and, at the end, every node has been visited; the weight of
\* a node is written by the task of that node only; a task reads the weights
\* of its children to sort them before their tasks are started, and to add
\* them to its own only after the task of each child, and of the whole
\* subtree of the child, has ended.
C19_ForkJoin ==
    /\ [](rpc \in {"compute", "done"} =>
            \A n \in 1..Len(nodes) :
               /\ cw[n].visits <= 1
               /\ cw[n].pc # "none" => cw[n].visits = 1
               /\ rpc = "done" => cw[n].pc = "done")
    /\ [][rpc = "compute" =>
            \A n \in 1..Len(nodes) :
               /\ nodes'[n].weight # nodes[n].weight
                    => /\ cw[n].pc \in {"start", "wait"}
                       /\ cw'[n].pc # cw[n].pc
               /\ (cw[n].pc = "start" /\ cw'[n].pc # "start")
                    => \A c \in ChildNodes(nodes, n) :
                          cw[c].pc = "none" /\ cw'[c].pc = "start"
               /\ (cw[n].pc # "done" /\ cw'[n].pc = "done")
                    => \A d \in Subtree(n) \ {n} : cw[d].pc = "done"]_vars

\* The task of Assets waits for the tasks of its two children: one of them
\* has ended, the other has not.
C19_Witness ==
    /\ rpc = "compute"
    /\ Len(nodes) >= 5
    /\ \E n \in 3..Len(nodes) :
         /\ cw[n].pc = "wait"
         /\ \E c, d \in ChildNodes(nodes, n) :
               c # d /\ cw[c].pc = "done" /\ cw[d].pc = "start"

-----------------------------------------------------------------------------
\* parser.Parser.ParseFile: the recursive-descent parser of lib/syntax/parser.
\* Its implementation is not part of the sources at hand; the operators below
\* follow the parser's contract as the specification states it and as the
\* parser's tests (lib/syntax/syntax.go) pin it down.  A text is a sequence of
\* characters, a Range a pair Start, End of offsets into it, and an Error is
\* written as its chain: the sequence of [Message, Start, End] from the
\* outermost Error to the innermost Wrapped one.  A Message is the tuple of
\* its parts, the backquotes of the Go messages being written as quotes.

\* The lines of the texts of TestParseFile, TestParseDate and
\* TestParseInclude.
Lines ==
    [Blank |-> <<>>,
     Bad |-> <<"a", "s", "d", "f">>,
     Include |-> <<"i", "n", "c", "l", "u", "d", "e", " ", "\"",
                   "f", "o", "o", ".", "k", "n", "u", "t", "\"">>,
     Open |-> <<"2", "0", "2", "1", "-", "0", "1", "-", "0", "1", " ",
                "o", "p", "e", "n", " ", "A">>,
     Comment |-> <<"#", " ", "c", "o", "m", "m", "e", "n", "t">>,
     Indented |-> <<" ", " ", "i", "n", "c", "l", "u", "d", "e", " ",
                    "\"", "f", "o", "o", "\"">>,
     ShortYear |-> <<"2", "0", "2", "-", "0", "5", "-", "3", "1">>,
     Incline |-> <<"i", "n", "c", "l", "i", "n", "e", " ", "\"", "f", "o", "o", "\"">>]

SourceLines == {Lines[k] : k \in DOMAIN Lines}

\* strings.JoinLines(lines, "\n")
RECURSIVE JoinLines(_)
JoinLines(ls) ==
    IF ls = <<>> THEN <<>>
    ELSE IF Len(ls) = 1 THEN ls[1]
    ELSE ls[1] \o <<"\n">> \o JoinLines(Tail(ls))

\* The path of the file parsed: the tests parse a text that has none.
Path == ""

\* ---- the scanner
EOF == "EOF"
Digits == {"0", "1", "2", "3", "4", "5", "6", "7", "8", "9"}
Alphanumerics ==
    Digits \cup {"a", "c", "d", "e", "f", "i", "k", "l", "m", "n", "o", "p",
                 "r", "s", "t", "u", "w", "A", "B", "C", "D", "F", "H", "S",
                 "U"}
Whitespace == {" ", "\t"}
CommentStart == {"*", "#", "/"}
Characters == Alphanumerics \cup Whitespace \cup CommentStart
                  \cup {"\n", "\"", "-", ".", ":", ","}

Current(t, o) == IF o < Len(t) THEN t[o + 1] ELSE EOF

RECURSIVE ReadWhile(_, _, _)
ReadWhile(t, o, S) ==
    IF Current(t, o) \in S THEN ReadWhile(t, o + 1, S) ELSE o

NoError == <<>>

\* The innermost Error: what was found at o and what was wanted.
Unexpected(t, o, want) ==
    <<[Message |-> IF Current(t, o) = EOF
                     THEN <<"unexpected end of file", want>>
                     ELSE <<"unexpected character", Current(t, o), want>>,
       Start |-> o, End |-> o]>>

ReadCharacterWith(t, o, S, want) ==
    IF Current(t, o) \in S
      THEN [off |-> o + 1, err |-> NoError]
      ELSE [off |-> o, err |-> Unexpected(t, o, want)]

\* Annotate, with the description and the start of the range the parser has
\* open: the Error e gets wrapped into an Error that names the context and
\* carries the range read so far.
AnnotateUnwrapped(desc, start, end, e) ==
    <<[Message |-> desc, Start |-> start, End |-> end]>>

Annotate(desc, start, end, e) ==
    <<[Message |-> desc, Start |-> start, End |-> end]>> \o e

\* The characters of str, one after the other, up to the first that differs;
\* the Error has no Wrapped one (TestParseInclude).
RECURSIVE MatchLen(_, _, _)
MatchLen(t, o, str) ==
    IF str = <<>> \/ Current(t, o) # Head(str) THEN 0
    ELSE 1 + MatchLen(t, o + 1, Tail(str))

ReadString(t, o, str, name) ==
    LET k == MatchLen(t, o, str)
    IN  IF k = Len(str)
          THEN [off |-> o + k, err |-> NoError]
          ELSE [off |-> o + k,
                err |-> <<[Message |-> <<"while reading", name>>,
                           Start |-> o, End |-> o + k]>>]

\* ---- the parser
readWhitespace1(t, o) ==
    IF Current(t, o) \in Whitespace
      THEN [off |-> ReadWhile(t, o, Whitespace), err |-> NoError]
    ELSE IF Current(t, o) = "\n"
      THEN [off |-> o, err |-> NoError]
    ELSE [off |-> o, err |-> Unexpected(t, o, "want whitespace or a newline")]

readRestOfWhitespaceLine(t, o) ==
    LET w == ReadWhile(t, o, Whitespace)
    IN  IF Current(t, w) = EOF THEN [off |-> w, err |-> NoError]
        ELSE IF Current(t, w) = "\n" THEN [off |-> w + 1, err |-> NoError]
        ELSE [off |-> w,
              err |-> Annotate(<<"while reading the rest of the line">>, o, w,
                               Unexpected(t, w, "want '\n'"))]

readComment(t, o) ==
    IF Current(t, o) \in CommentStart
      THEN [off |-> ReadWhile(t, o, Characters \ {"\n"}), err |-> NoError]
      ELSE [off |-> o,
            err |-> Annotate(<<"while reading comment">>, o, o,
                      <<[Message |-> <<"unexpected input",
                                       "want one of {'*', '//', '#'}">>,
                         Start |-> o, End |-> o]>>)]

\* yyyy-mm-dd, character by character.
DatePattern ==
    <<[in |-> Digits, want |-> "want a digit"],
      [in |-> Digits, want |-> "want a digit"],
      [in |-> Digits, want |-> "want a digit"],
      [in |-> Digits, want |-> "want a digit"],
      [in |-> {"-"}, want |-> "want '-'"],
      [in |-> Digits, want |-> "want a digit"],
      [in |-> Digits, want |-> "want a digit"],
      [in |-> {"-"}, want |-> "want '-'"],
      [in |-> Digits, want |-> "want a digit"],
      [in |-> Digits, want |-> "want a digit"]>>

\* The characters of the pattern from its i-th on, read one after the other.
RECURSIVE ReadPattern(_, _, _)
ReadPattern(t, o, i) ==
    IF i > Len(DatePattern) THEN [off |-> o, err |-> NoError]
    ELSE IF Current(t, o) \in DatePattern[i].in THEN ReadPattern(t, o + 1, i + 1)
    ELSE ReadCharacterWith(t, o, DatePattern[i].in, DatePattern[i].want)

parseDate(t, o) ==
    LET r == ReadPattern(t, o, 1)
    IN  [off |-> r.off,
         val |-> [Start |-> o, End |-> r.off],
         err |-> IF r.err = NoError THEN NoError
                 ELSE Annotate(<<"while parsing the date">>, o, r.off, r.err)]

parseQuotedString(t, o) ==
    LET q == ReadCharacterWith(t, o, {"\""}, "want '\"'")
        c == ReadWhile(t, o + 1, Characters \ {"\""})
        e == ReadCharacterWith(t, c, {"\""}, "want '\"'")
        r == IF q.err # NoError THEN q ELSE e
    IN  [off |-> r.off,
         val |-> [Start |-> o, End |-> r.off,
                  Content |-> IF q.err # NoError THEN [Start |-> o, End |-> o]
                              ELSE [Start |-> o + 1, End |-> c]],
         err |-> IF r.err = NoError THEN NoError
                 ELSE Annotate(<<"while parsing quoted string">>, o, r.off, r.err)]

\* Segments of letters and digits, separated by colons.
RECURSIVE ReadSegments(_, _)
ReadSegments(t, o) ==
    LET w == ReadWhile(t, o + 1, Alphanumerics)
    IN  IF Current(t, o) \notin Alphanumerics
          THEN ReadCharacterWith(t, o, Alphanumerics, "want a letter or a digit")
        ELSE IF Current(t, w) = ":" THEN ReadSegments(t, w + 1)
        ELSE [off |-> w, err |-> NoError]

parseAccount(t, o) ==
    LET r == ReadSegments(t, o)
    IN  [off |-> r.off,
         val |-> [Start |-> o, End |-> r.off],
         err |-> IF r.err = NoError THEN NoError
                 ELSE Annotate(<<"while parsing account">>, o, r.off, r.err)]

\* The value of a Directive that did not get parsed.
NilDirective == [kind |-> "nil"]

parseInclude(t, o) ==
    LET word == <<"i", "n", "c", "l", "u", "d", "e">>
        k == ReadString(t, o, word, "include")
        w == IF k.err # NoError THEN k ELSE readWhitespace1(t, o + Len(word))
        q == IF w.err # NoError THEN [w EXCEPT !.val = [Start |-> 0, End |-> 0]]
             ELSE parseQuotedString(t, w.off)
    IN  [off |-> q.off,
         val |-> IF k.err # NoError \/ w.err # NoError
                   THEN [kind |-> "include", Start |-> o, End |-> q.off]
                   ELSE [kind |-> "include", Start |-> o, End |-> q.off,
                         IncludePath |-> q.val],
         err |-> IF q.err = NoError THEN NoError
                 ELSE Annotate(<<"while parsing 'include' statement">>,
                               o, q.off, q.err)]

\* The opening of an account: the date has been read, from o to d.
parseOpen(t, o, d) ==
    LET word == <<"o", "p", "e", "n">>
        k == ReadString(t, d, word, "open")
        w == IF k.err # NoError THEN k ELSE readWhitespace1(t, d + Len(word))
        a == IF w.err # NoError THEN [w EXCEPT !.val = [Start |-> 0, End |-> 0]]
             ELSE parseAccount(t, w.off)
    IN  [off |-> a.off,
         val |-> IF k.err # NoError \/ w.err # NoError
                   THEN [kind |-> "open", Start |-> o, End |-> a.off]
                   ELSE [kind |-> "open", Start |-> o, End |-> a.off,
                         Account |-> a.val],
         err |-> a.err]

\* The one element of a set of one element: what is computed once and used
\* several times gets bound as the element of such a set.
Only(S) == CHOOSE x \in S : TRUE

\* A decimal: a sign or none, digits, and a point followed by digits or none.
parseDecimal(t, o) ==
    LET s == IF Current(t, o) = "-" THEN o + 1 ELSE o
        d == ReadWhile(t, s, Digits)
        f == ReadWhile(t, d + 1, Digits)
        end == IF d = s THEN s ELSE IF Current(t, d) = "." THEN f ELSE d
        e == IF d = s \/ (Current(t, d) = "." /\ f = d + 1)
               THEN Unexpected(t, end, "want a digit")
               ELSE NoError
    IN  [off |-> end,
         val |-> [Start |-> o, End |-> end],
         err |-> IF e = NoError THEN NoError
                 ELSE Annotate(<<"while parsing decimal">>, o, end, e)]

\* A commodity: letters and digits, one at least.
parseCommodity(t, o) ==
    LET r == IF Current(t, o) \in Alphanumerics
               THEN [off |-> ReadWhile(t, o, Alphanumerics), err |-> NoError]
               ELSE ReadCharacterWith(t, o, Alphanumerics,
                                      "want a letter or a digit")
    IN  [off |-> r.off,
         val |-> [Start |-> o, End |-> r.off],
         err |-> IF r.err = NoError THEN NoError
                 ELSE Annotate(<<"while parsing commodity">>, o, r.off, r.err)]

\* The white space between the fields of a booking: one character at least.
readWhitespace(t, o) ==
    IF Current(t, o) \in Whitespace
      THEN [off |-> ReadWhile(t, o, Whitespace), err |-> NoError]
      ELSE [off |-> o, err |-> Unexpected(t, o, "want whitespace")]

\* The fields of a booking, in the order they are written in.
BookingFields == <<"Credit", "Debit", "Amount", "Commodity">>

parseField(t, o, i) ==
    CASE i \in {1, 2} -> parseAccount(t, o)
      [] i = 3 -> parseDecimal(t, o)
      [] i = 4 -> parseCommodity(t, o)

\* The fields of the booking b from the i-th on, b.End being what has been
\* read: a field is kept even if parsing it failed.
RECURSIVE readFields(_, _, _)
readFields(t, b, i) ==
    Only({ IF r.err # NoError \/ i = Len(BookingFields)
             THEN [off |-> r.off,
                   val |-> ((BookingFields[i] :> r.val) @@ [End |-> r.off]) @@ b,
                   err |-> r.err]
             ELSE Only({ IF w.err # NoError
                           THEN [off |-> w.off,
                                 val |-> ((BookingFields[i] :> r.val)
                                             @@ [End |-> w.off]) @@ b,
                                 err |-> w.err]
                           ELSE readFields(t,
                                           ((BookingFields[i] :> r.val)
                                               @@ [End |-> w.off]) @@ b,
                                           i + 1)
                         : w \in {readWhitespace(t, r.off)} })
           : r \in {parseField(t, b.End, i)} })

parseBooking(t, o) ==
    Only({ [off |-> r.off,
            val |-> r.val,
            err |-> IF r.err = NoError THEN NoError
                    ELSE Annotate(<<"while parsing booking">>, o, r.off, r.err)]
           : r \in {readFields(t, [Start |-> o, End |-> o], 1)} })

\* The bookings of a transaction, one on a line, bs being those read: as
\* long as a line starts with a letter or a digit.
RECURSIVE readBookings(_, _, _)
readBookings(t, o, bs) ==
    IF Current(t, o) \notin Alphanumerics
      THEN [off |-> o, val |-> bs, err |-> NoError]
      ELSE Only({ IF b.err # NoError
                    THEN [off |-> b.off, val |-> Append(bs, b.val), err |-> b.err]
                    ELSE Only({ IF l.err # NoError
                                  THEN [off |-> l.off,
                                        val |-> Append(bs, b.val),
                                        err |-> l.err]
                                  ELSE readBookings(t, l.off, Append(bs, b.val))
                                : l \in {readRestOfWhitespaceLine(t, b.off)} })
                  : b \in {parseBooking(t, o)} })

\* What parseTransaction returns: the transaction read so far, and the
\* Error annotated.
Transaction(o, end, desc, bs, e) ==
    [off |-> end,
     val |-> [kind |-> "transaction", Start |-> o, End |-> end,
              Description |-> desc, Bookings |-> bs],
     err |-> IF e = NoError THEN NoError
             ELSE Annotate(<<"while parsing transaction">>, o, end, e)]

\* A transaction: the date has been read, from o to d; the description, the
\* rest of its line, and the bookings.
parseTransaction(t, o, d) ==
    Only({ IF q.err # NoError
             THEN Transaction(o, q.off, q.val, <<>>, q.err)
             ELSE Only({ IF l.err # NoError
                           THEN Transaction(o, l.off, q.val, <<>>, l.err)
                           ELSE Only({ Transaction(o, bs.off, q.val, bs.val, bs.err)
                                       : bs \in {readBookings(t, l.off, <<>>)} })
                         : l \in {readRestOfWhitespaceLine(t, q.off)} })
           : q \in {parseQuotedString(t, d)} })

\* parseDirective: an include, or a dated directive, which here is a
\* transaction or the opening of an account.  The Directive returned carries the range read, and
\* the value parsed unless parsing it failed at the date.
parseDirective(t, o) ==
    LET dated == LET d == parseDate(t, o)
                     w == IF d.err # NoError THEN [off |-> d.off, err |-> d.err]
                          ELSE readWhitespace1(t, o + Len(DatePattern))
                 IN  IF d.err # NoError
                       THEN [off |-> d.off, val |-> NilDirective, err |-> d.err]
                     ELSE IF w.err # NoError
                       THEN [off |-> w.off, val |-> NilDirective, err |-> w.err]
                     ELSE LET r == IF Current(t, w.off) = "\""
                                     THEN parseTransaction(t, o, w.off)
                                     ELSE parseOpen(t, o, w.off)
                          IN  [r EXCEPT !.val = @ @@ [Date |-> d.val]]
        r == IF Current(t, o) = "i" THEN parseInclude(t, o) ELSE dated
    IN  [off |-> r.off,
         val |-> [Start |-> o, End |-> r.off, Directive |-> r.val],
         err |-> IF r.err = NoError THEN NoError
                 ELSE Annotate(<<"while parsing directive">>, o, r.off, r.err)]

\* ---- ParseFile
MaxLines == 3

InitSyntax ==
    /\ PartitionIdle
    /\ FilterIdle
    /\ ParserIdle
    /\ BalanceIdle
    /\ AstIdle
    /\ ReportIdle
    /\ ScannerIdle
    /\ \E n \in 1..MaxLines : srcLines \in [1..n -> SourceLines]
    /\ srcText = JoinLines(srcLines)
    /\ offset = 0
    /\ file = [Start |-> 0, End |-> 0, Directives |-> <<>>]
    /\ perr = NoError
    /\ spc = "parse"

\* return file, p.Annotate(err): the file gets the range read so far.
ReturnError(r, ds) ==
    /\ offset' = r.off
    /\ file' = [file EXCEPT !.End = r.off, !.Directives = ds]
    /\ perr' = Annotate(<<"while parsing file", Path>>, 0, r.off, r.err)
    /\ spc' = "failed"

\* The end of an iteration of the loop: the rest of the line has to be empty.
RestOfLine(o, ds) ==
    \E r \in {readRestOfWhitespaceLine(srcText, o)} :
        IF r.err # NoError THEN ReturnError(r, ds)
        ELSE /\ offset' = r.off
             /\ file' = [file EXCEPT !.Directives = ds]
             /\ UNCHANGED <<perr, spc>>

\* An iteration at a comment.
LineOfComment ==
    /\ spc = "parse"
    /\ Current(srcText, offset) \in CommentStart
    /\ \E r \in {readComment(srcText, offset)} :
           IF r.err # NoError THEN ReturnError(r, file.Directives)
           ELSE RestOfLine(r.off, file.Directives)
    /\ UNCHANGED <<srcLines, srcText, syntaxOthers>>

\* An iteration at a directive: the Directive is appended to the file, parsed
\* or not.
LineOfDirective ==
    /\ spc = "parse"
    /\ Current(srcText, offset) \in Alphanumerics \cup {"@"}
    /\ \E r \in {parseDirective(srcText, offset)} :
           IF r.err # NoError THEN ReturnError(r, Append(file.Directives, r.val))
           ELSE RestOfLine(r.off, Append(file.Directives, r.val))
    /\ UNCHANGED <<srcLines, srcText, syntaxOthers>>

\* An iteration at anything else.
LineOfWhitespace ==
    /\ spc = "parse"
    /\ Current(srcText, offset) \notin
           CommentStart \cup Alphanumerics \cup {"@", EOF}
    /\ RestOfLine(offset, file.Directives)
    /\ UNCHANGED <<srcLines, srcText, syntaxOthers>>

\* The end of the text: return file, nil.
EndOfFile ==
    /\ spc = "parse"
    /\ Current(srcText, offset) = EOF
    /\ file' = [file EXCEPT !.End = offset]
    /\ spc' = "done"
    /\ UNCHANGED <<srcLines, srcText, offset, perr, syntaxOthers>>

NextSyntax ==
    \/ LineOfComment
    \/ LineOfDirective
    \/ LineOfWhitespace
    \/ EndOfFile

SpecSyntax == InitSyntax /\ [][NextSyntax]_vars

\* ---- what a text holds, line by line
FailingLines == {Lines.Bad, Lines.Indented, Lines.ShortYear, Lines.Incline}
DirectiveLines == {Lines.Include, Lines.Open}

\* The first line that does not parse, 0 if every line does.
FirstFailing(ls) ==
    IF \E i \in 1..Len(ls) : ls[i] \in FailingLines
      THEN CHOOSE i \in 1..Len(ls) :
               /\ ls[i] \in FailingLines
               /\ \A j \in 1..(i - 1) : ls[j] \notin FailingLines
      ELSE 0

\* The offset of the first character of line i.
RECURSIVE LineStart(_, _)
LineStart(ls, i) ==
    IF i <= 1 THEN 0 ELSE LineStart(ls, i - 1) + Len(ls[i - 1]) + 1

\* The directives on the lines before line f, as [Start, End, kind].
RECURSIVE DirectivesBefore(_, _)
DirectivesBefore(ls, f) ==
    IF f <= 1 THEN <<>>
    ELSE LET before == DirectivesBefore(ls, f - 1)
             l == ls[f - 1]
         IN  IF l \in DirectiveLines
               THEN Append(before,
                           [Start |-> LineStart(ls, f - 1),
                            End |-> LineStart(ls, f - 1) + Len(l),
                            kind |-> IF l = Lines.Open THEN "open" ELSE "include"])
               ELSE before

\* A Directive of the file as [Start, End, kind].
Outline(d) == [Start |-> d.Start, End |-> d.End, kind |-> d.Directive.kind]

\* The Error that TestParseFile wants for a line asdf that starts at s.
DateErrorAt(s) ==
    <<[Message |-> <<"while parsing file", Path>>, Start |-> 0, End |-> s],
      [Message |-> <<"while parsing directive">>, Start |-> s, End |-> s],
      [Message |-> <<"while parsing the date">>, Start |-> s, End |-> s],
      [Message |-> <<"unexpected character", "a", "want a digit">>,
       Start |-> s, End |-> s]>>

\* C20: when ParseFile fails, the File it returns holds the directives of
\* the lines before the failure, in order and with their ranges, followed by
\* at most the directive that failed; the Error is a chain that starts with
\* the file as the outermost context, every Wrapped Error lying within the
\* range of the one that wraps it and the innermost lying on the line that
\* does not parse; and for a line asdf the chain is file, directive, date,
\* "unexpected character a, want a digit", which for the text "\nasdf" puts
\* the innermost range at offset 1.  Without a failure the Error is nil.
C20_PartialResult ==
    /\ spc # "failed" => perr = NoError
    /\ spc = "done" => FirstFailing(srcLines) = 0
    /\ spc = "failed" =>
         LET f == FirstFailing(srcLines)
             s == LineStart(srcLines, f)
             want == DirectivesBefore(srcLines, f)
             got == file.Directives
             n == Len(perr)
         IN  /\ f > 0
             /\ Len(got) >= Len(want)
             /\ \A i \in 1..Len(want) : Outline(got[i]) = want[i]
             /\ Len(got) = Len(want) + (IF srcLines[f] = Lines.Indented THEN 0 ELSE 1)
             /\ n >= 2
             /\ perr[1].Message = <<"while parsing file", Path>>
             /\ perr[1].Start = 0
             /\ perr[1].End = file.End
             /\ \A i \in 1..(n - 1) :
                   /\ perr[i].Start <= perr[i + 1].Start
                   /\ perr[i + 1].End <= perr[i].End
             /\ s <= perr[n].Start
             /\ perr[n].End <= s + Len(srcLines[f])
             /\ srcLines[f] = Lines.Bad => perr = DateErrorAt(s)
             /\ srcText = <<"\n", "a", "s", "d", "f">> =>
                   /\ perr = DateErrorAt(1)
                   /\ file = [Start |-> 0, End |-> 1,
                              Directives |-> <<[Start |-> 1, End |-> 1,
                                                Directive |-> NilDirective]>>]

\* ParseFile has failed at a line asdf after it had parsed a directive: the
\* File holds that directive, and the Error is four deep.
C20_Witness ==
    /\ spc = "failed"
    /\ srcLines[FirstFailing(srcLines)] = Lines.Bad
    /\ Len(perr) = 4
    /\ Len(file.Directives) >= 2
    /\ file.Directives[1].Directive.kind \in {"open", "include"}

-----------------------------------------------------------------------------
\* ParseFile on the texts of transactions, and the ranges it returns.

\* The lines of the transaction of TestParseFile, and a booking written with
\* more white space and with a negative decimal (TestParseBooking,
\* TestParseDecimal).
TrxLines ==
    [Head |->
         <<"2", "0", "2", "2", "-", "0", "3", "-", "0", "3", " ",
           "\"", "H", "e", "l", "l", "o", ",", " ", "w", "o", "r",
           "l", "d", "\"">>,
     Booking |->
         <<"A", ":", "B", ":", "C", " ", "C", ":", "B", ":", "A", "S",
           "D", "F", " ", "4", "0", "0", " ", "C", "H", "F">>,
     Second |->
         <<"C", " ", " ", "A", ":", "B", " ", "-", "1", ".", "5", " ",
           "U", "S", "D">>]

RangeLines ==
    {TrxLines.Head, TrxLines.Booking, TrxLines.Second, Lines.Blank,
     Lines.Comment}

MaxRangeLines == 5

InitRanges ==
    /\ PartitionIdle
    /\ FilterIdle
    /\ ParserIdle
    /\ BalanceIdle
    /\ AstIdle
    /\ ReportIdle
    /\ ScannerIdle
    /\ \E n \in 1..MaxRangeLines : srcLines \in [1..n -> RangeLines]
    /\ srcText = JoinLines(srcLines)
    /\ offset = 0
    /\ file = [Start |-> 0, End |-> 0, Directives |-> <<>>]
    /\ perr = NoError
    /\ spc = "parse"

SpecRanges == InitRanges /\ [][NextSyntax]_vars

\* Range.Extract: the text of a range.
Extract(t, r) == SubSeq(t, r.Start + 1, r.End)

\* text[lo:hi], which panics unless lo <= hi <= len(text).
GoSlice(t, lo, hi) ==
    IF lo <= hi /\ hi <= Len(t) THEN SubSeq(t, lo + 1, hi) ELSE <<"panic">>

\* pos = d.End
NextPosStart(d) == d.Start

NextPos(d) == d.End

\* Printer.Format: the text between the directives is written as it is,
\* and the i-th directive as printed[i].
RECURSIVE FormatFrom(_, _, _, _, _)
FormatFrom(t, ds, printed, pos, i) ==
    IF i > Len(ds) THEN GoSlice(t, pos, Len(t))
    ELSE GoSlice(t, pos, ds[i].Start) \o printed[i]
             \o FormatFrom(t, ds, printed, NextPos(ds[i]), i + 1)

Format(t, ds, printed) == FormatFrom(t, ds, printed, 0, 1)

\* ---- what the ranges of a transaction have to be
\* The fields of the bookings, as the lines hold them.
BookingTexts ==
    {[line |-> TrxLines.Booking,
      Credit |-> <<"A", ":", "B", ":", "C">>,
      Debit |-> <<"C", ":", "B", ":", "A", "S", "D", "F">>,
      Amount |-> <<"4", "0", "0">>,
      Commodity |-> <<"C", "H", "F">>],
     [line |-> TrxLines.Second,
      Credit |-> <<"C">>,
      Debit |-> <<"A", ":", "B">>,
      Amount |-> <<"-", "1", ".", "5">>,
      Commodity |-> <<"U", "S", "D">>]}

\* The ranges of the fields of bookings, in the order of the text.
RECURSIVE BookingRanges(_)
BookingRanges(bs) ==
    IF bs = <<>> THEN <<>>
    ELSE <<Head(bs).Credit, Head(bs).Debit, Head(bs).Amount, Head(bs).Commodity>>
             \o BookingRanges(Tail(bs))

\* The bookings of the directives, in order.
RECURSIVE AllBookings(_)
AllBookings(ds) ==
    IF ds = <<>> THEN <<>>
    ELSE Head(ds).Directive.Bookings \o AllBookings(Tail(ds))

\* The ranges rs lie between lo and hi, none is empty, and each ends before
\* the next starts.
RangesOrdered(rs, lo, hi) ==
    /\ \A i \in 1..Len(rs) :
          lo <= rs[i].Start /\ rs[i].Start < rs[i].End /\ rs[i].End <= hi
    /\ \A i \in 1..(Len(rs) - 1) : rs[i].End <= rs[i + 1].Start

IsBookingLine(l) == l \in {TrxLines.Booking, TrxLines.Second}

IsHeadLine(l) == l = TrxLines.Head

\* C23: when ParseFile has parsed a text of transactions, every range is the
\* text of its element: the date, the description and its content, each
\* booking and its credit, debit, amount and commodity, as the lines hold
\* them, no transaction and no booking missing; the ranges of a transaction
\* lie in its range in the order of the text without overlapping, and so do
\* the ranges of the directives in the text; and writing the text between
\* the directives unchanged and, for each directive, the text of its range,
\* gives the text again.  For the text of TestParseFile the ranges are those
\* the test wants.
C23_RangeRoundTrip ==
    spc = "done" =>
      LET ds == file.Directives
          bs == AllBookings(ds)
      IN  /\ RangesOrdered(ds, 0, Len(srcText))
          /\ Len(ds) = Len(SelectSeq(srcLines, IsHeadLine))
          /\ [i \in 1..Len(bs) |-> Extract(srcText, bs[i])]
                = SelectSeq(srcLines, IsBookingLine)
          /\ \A i \in 1..Len(ds) :
                LET d == ds[i].Directive
                IN  /\ d.kind = "transaction"
                    /\ d.Start = ds[i].Start
                    /\ d.End = ds[i].End
                    /\ Extract(srcText, d.Date) = SubSeq(TrxLines.Head, 1, 10)
                    /\ Extract(srcText, d.Description)
                          = SubSeq(TrxLines.Head, 12, Len(TrxLines.Head))
                    /\ Extract(srcText, d.Description.Content)
                          = SubSeq(TrxLines.Head, 13, Len(TrxLines.Head) - 1)
                    /\ RangesOrdered(<<d.Date, d.Description>> \o d.Bookings,
                               d.Start, d.End)
                    /\ RangesOrdered(<<d.Date, d.Description>>
                                   \o BookingRanges(d.Bookings),
                               d.Start, d.End)
                    /\ \A k \in 1..Len(d.Bookings) :
                          LET b == d.Bookings[k]
                          IN  /\ RangesOrdered(BookingRanges(<<b>>), b.Start, b.End)
                              /\ \E e \in BookingTexts :
                                    /\ Extract(srcText, b) = e.line
                                    /\ Extract(srcText, b.Credit) = e.Credit
                                    /\ Extract(srcText, b.Debit) = e.Debit
                                    /\ Extract(srcText, b.Amount) = e.Amount
                                    /\ Extract(srcText, b.Commodity) = e.Commodity
          /\ Format(srcText, ds, [i \in 1..Len(ds) |-> Extract(srcText, ds[i])])
                = srcText
          /\ srcLines = <<TrxLines.Head, TrxLines.Booking>> =>
                file = [Start |-> 0, End |-> 48,
                        Directives |->
                          <<[Start |-> 0, End |-> 48,
                             Directive |->
                               [kind |-> "transaction", Start |-> 0, End |-> 48,
                                Date |-> [Start |-> 0, End |-> 10],
                                Description |->
                                  [Start |-> 11, End |-> 25,
                                   Content |-> [Start |-> 12, End |-> 24]],
                                Bookings |->
                                  <<[Start |-> 26, End |-> 48,
                                     Credit |-> [Start |-> 26, End |-> 31],
                                     Debit |-> [Start |-> 32, End |-> 40],
                                     Amount |-> [Start |-> 41, End |-> 44],
                                     Commodity |-> [Start |-> 45, End |-> 48]]>>]]>>]

\* ParseFile has parsed two transactions with a blank line in between, of
\* one booking each, the two bookings written differently.
C23_Witness ==
    /\ spc = "done"
    /\ Len(file.Directives) = 2
    /\ file.Directives[1].End < file.Directives[2].Start
    /\ Len(file.Directives[1].Directive.Bookings) = 1
    /\ Len(file.Directives[2].Directive.Bookings) = 1
    /\ Extract(srcText, file.Directives[1].Directive.Bookings[1])
         # Extract(srcText, file.Directives[2].Directive.Bookings[1])

-----------------------------------------------------------------------------
\* scanner.Scanner, the scanner of the journal parser, and Parser.Next on top
\* of it.  A text is a sequence of units, each of which ReadRune decodes into
\* one rune: a unit is the encoding of a rune, or a byte that is part of no
\* encoding.  A predicate on runes is the set of the runes it holds for.

\* The units: a letter of one byte and one of two, a blank, a newline, the
\* start of a comment, and the byte 0xff, which is not valid UTF-8.
TextUnits == {"a", "eacute", " ", "\n", "#", "xff"}

\* The bytes a unit takes in the text.
UnitSize(u) == IF u = "eacute" THEN 2 ELSE 1

\* len(text)
RECURSIVE ByteLen(_)
ByteLen(t) == IF t = <<>> THEN 0 ELSE UnitSize(Head(t)) + ByteLen(Tail(t))

\* utf8.RuneError: what ReadRune returns, with size 1, for a byte that is
\* part of no encoding.
RuneError == "RuneError"

\* strings.Reader.ReadRune, rd units having been read: the rune, its size in
\* the text, and the error.  At the end it returns 0, 0, io.EOF.
ReadRune(t, rd) ==
    IF rd >= Len(t)
      THEN [ch |-> EOF, size |-> 0, err |-> "io.EOF", reader |-> rd]
      ELSE [ch |-> IF t[rd + 1] = "xff" THEN RuneError ELSE t[rd + 1],
            size |-> UnitSize(t[rd + 1]),
            err |-> "nil",
            reader |-> rd + 1]

\* utf8.RuneLen: the bytes of the encoding of a rune; EOF is rune(0).
RuneLen(r) ==
    CASE r = "eacute" -> 2
      [] r = RuneError -> 3
      [] OTHER -> 1

\* scanner.New: the first rune is read, the Location is that of the start.
New(t) ==
    [reader |-> ReadRune(t, 0).reader,
     current |-> ReadRune(t, 0).ch,
     Location |-> [Line |-> 1, Column |-> 1, BytePos |-> 0, RunePos |-> 0]]

\* Scanner.Advance: an io.EOF of the reader is not an error, the rune read is
\* EOF then; the Location moves past the current rune.
Advance(t, s) ==
    [reader |-> ReadRune(t, s.reader).reader,
     current |-> ReadRune(t, s.reader).ch,
     Location |->
        [BytePos |-> s.Location.BytePos + RuneLen(s.current),
         RunePos |-> s.Location.RunePos + 1,
         Line |-> IF s.current = "\n" THEN s.Location.Line + 1
                  ELSE s.Location.Line,
         Column |-> IF s.current = "\n" THEN 1 ELSE s.Location.Column + 1]]

\* s.text[start:end]: the slice expression panics when end is beyond the
\* length of the text.
Slice(t, op, start, end) ==
    [op |-> op, start |-> start, end |-> end, panic |-> end > ByteLen(t)]

NoCapture == [op |-> "none", start |-> 0, end |-> 0, panic |-> FALSE]

\* The loop of Scanner.ReadN: n times Advance.
RECURSIVE ReadN(_, _, _)
ReadN(t, s, n) == IF n = 0 THEN s ELSE ReadN(t, Advance(t, s), n - 1)

\* The loop of Scanner.ReadWhile.
RECURSIVE ScannerReadWhile(_, _, _)
ScannerReadWhile(t, s, pred) ==
    IF s.current \in pred /\ s.current # EOF
      THEN ScannerReadWhile(t, Advance(t, s), pred)
      ELSE s

\* Scanner.ConsumeRune
ConsumeRune(t, s, r) ==
    IF s.current # r THEN [s |-> s, err |-> "expected"]
    ELSE [s |-> Advance(t, s), err |-> "nil"]

\* Scanner.ParseString: the error of a mismatch quotes the text read since
\* start.
RECURSIVE ParseString(_, _, _, _)
ParseString(t, s, str, start) ==
    IF str = <<>> THEN [s |-> s, err |-> "nil", got |-> NoCapture]
    ELSE IF Head(str) # s.current
      THEN [s |-> s, err |-> "expected",
            got |-> Slice(t, "ParseString", start, s.Location.BytePos)]
    ELSE ParseString(t, Advance(t, s), Tail(str), start)

\* FindLocation
RECURSIVE FindLoop(_, _, _, _, _)
FindLoop(t, pos, rd, off, res) ==
    IF off >= pos THEN res
    ELSE IF ReadRune(t, rd).err # "nil"
      THEN [res EXCEPT !.err = ReadRune(t, rd).err]
    ELSE FindLoop(t, pos, rd + 1, off + ReadRune(t, rd).size,
                  IF ReadRune(t, rd).ch = "\n"
                    THEN [res EXCEPT !.Line = @ + 1, !.Column = 1]
                    ELSE [res EXCEPT !.Column = @ + 1])

FindLocation(t, pos) ==
    IF pos > ByteLen(t)
      THEN [Line |-> 1, Column |-> 1, err |-> "invalid pos"]
      ELSE FindLoop(t, pos, 0, 0, [Line |-> 1, Column |-> 1, err |-> "nil"])

\* The predicates of the parser, and unicode.IsLetter on the runes at hand.
isWhitespace == {" ", "\t", "\r"}
isNewline == {"\n"}
isWhitespaceOrNewline == isNewline \cup isWhitespace
IsLetter == {"a", "eacute"}

Preds == {isWhitespace, isNewline, isWhitespaceOrNewline, IsLetter}

\* The strings handed to ParseString.
Strings == {<<"#">>, <<"a", "a">>, <<"a", " ">>}

\* ---- the calls
MaxText == 3    \* the units of a text
MaxPast == 2    \* the calls of Advance explored beyond the runes of the text
MaxN == 2       \* the n of ReadN

NoCall == [op |-> "none", pred |-> {}, by |-> "none", steps |-> 0, avail |-> 0]

\* The runes not consumed yet, the current one included.
Remaining(t, s) == IF s.current = EOF THEN 0 ELSE Len(t) - s.reader + 1

InitScanner ==
    /\ PartitionIdle
    /\ FilterIdle
    /\ ParserIdle
    /\ BalanceIdle
    /\ AstIdle
    /\ ReportIdle
    /\ SyntaxIdle
    /\ \E n \in 0..MaxText : text \in [1..n -> TextUnits]
    /\ scanner = New(text)
    /\ call = NoCall
    /\ captured = NoCapture
    /\ ppc = "idle"
    /\ nextRet = "none"
    /\ annots = <<>>
    /\ addon = <<>>
    /\ addonErr = "nil"
    /\ addonPc = "idle"
    /\ addonPos = 0

\* No call runs, and none has panicked.
Ready == call.op = "none" /\ ppc = "idle" /\ ~captured.panic

\* n more calls of Advance stay within what is explored.
CanAdvance(n) == scanner.Location.RunePos + n <= Len(text) + MaxPast

CallAdvance ==
    /\ Ready
    /\ CanAdvance(1)
    /\ scanner' = Advance(text, scanner)
    /\ UNCHANGED <<text, call, captured, ppc, nextRet, addonVars, scanOthers>>

CallReadN ==
    /\ Ready
    /\ \E n \in 1..MaxN :
         /\ CanAdvance(n)
         /\ \E s \in {ReadN(text, scanner, n)} :
              /\ scanner' = s
              /\ captured' = Slice(text, "ReadN", scanner.Location.BytePos,
                                   s.Location.BytePos)
    /\ UNCHANGED <<text, call, ppc, nextRet, addonVars,
                   scanOthers>>

CallReadWhile ==
    /\ Ready
    /\ \E pred \in Preds :
         \E s \in {ScannerReadWhile(text, scanner, pred)} :
              /\ scanner' = s
              /\ captured' = Slice(text, "ReadWhile", scanner.Location.BytePos,
                                   s.Location.BytePos)
    /\ UNCHANGED <<text, call, ppc, nextRet, addonVars,
                   scanOthers>>

CallConsumeRune ==
    /\ Ready
    /\ CanAdvance(1)
    /\ \E r \in {"\n", "#", "a"} : scanner' = ConsumeRune(text, scanner, r).s
    /\ UNCHANGED <<text, call, captured, ppc, nextRet, addonVars, scanOthers>>

CallParseString ==
    /\ Ready
    /\ \E str \in Strings :
         /\ CanAdvance(Len(str))
         /\ \E r \in {ParseString(text, scanner, str, scanner.Location.BytePos)} :
              /\ scanner' = r.s
              /\ captured' = IF r.err = "nil" THEN captured ELSE r.got
    /\ UNCHANGED <<text, call, ppc, nextRet, addonVars,
                   scanOthers>>

\* Scanner.ConsumeWhile and Scanner.ConsumeUntil run step by step: the call,
\* the iterations of its loop, and the return.
CallConsumeWhile ==
    /\ Ready
    /\ \E pred \in Preds :
         call' = [op |-> "ConsumeWhile", pred |-> pred, by |-> "client",
                  steps |-> 0, avail |-> Remaining(text, scanner)]
    /\ UNCHANGED <<text, scanner, captured, ppc, nextRet, addonVars, scanOthers>>

CallConsumeUntil ==
    /\ Ready
    /\ \E pred \in Preds :
         call' = [op |-> "ConsumeUntil", pred |-> pred, by |-> "client",
                  steps |-> 0, avail |-> Remaining(text, scanner)]
    /\ UNCHANGED <<text, scanner, captured, ppc, nextRet, addonVars, scanOthers>>

\* The condition of the loop: pred(s.Current()), or its negation.
Continues(c, ch) ==
    IF c.op = "ConsumeWhile" THEN ch \in c.pred ELSE ch \notin c.pred

\* An iteration of the loop.
ConsumeStep ==
    /\ call.op # "none"
    /\ Continues(call, scanner.current)
    /\ CanAdvance(1)
    /\ scanner' = Advance(text, scanner)
    /\ call' = [call EXCEPT !.steps = @ + 1]
    /\ UNCHANGED <<text, captured, ppc, nextRet, addonVars, scanOthers>>

\* The loop is over: return nil.
ConsumeReturn ==
    /\ call.op # "none"
    /\ call.by = "client"
    /\ ~Continues(call, scanner.current)
    /\ call' = NoCall
    /\ UNCHANGED <<text, scanner, captured, ppc, nextRet, addonVars, scanOthers>>

\* ---- Parser.Next
CallNext ==
    /\ Ready
    /\ ppc' = "loop"
    /\ nextRet' = "none"
    /\ UNCHANGED <<text, scanner, call, captured, addonVars, scanOthers>>

\* for p.current() != scanner.EOF: white space and newlines get consumed;
\* after the loop, return nil, io.EOF.
NextLoop ==
    /\ ppc = "loop"
    /\ call.op = "none"
    /\ IF scanner.current = EOF
         THEN /\ ppc' = "idle"
              /\ nextRet' = "io.EOF"
              /\ call' = call
         ELSE /\ call' = [op |-> "ConsumeWhile", pred |-> isWhitespaceOrNewline,
                          by |-> "Next", steps |-> 0,
                          avail |-> Remaining(text, scanner)]
              /\ UNCHANGED <<ppc, nextRet>>
    /\ UNCHANGED <<text, scanner, captured, addonVars,
                   scanOthers>>

\* ConsumeWhile has returned to Next.
NextWhitespaceDone ==
    /\ call.op # "none"
    /\ call.by = "Next"
    /\ ~Continues(call, scanner.current)
    /\ call' = NoCall
    /\ ppc' = "switch"
    /\ UNCHANGED <<text, scanner, captured, nextRet, addonVars, scanOthers>>

\* The switch of Next: a comment gets consumed, which starts with the
\* ConsumeUntil of consumeComment; at the end of the text no case applies;
\* any other rune at hand is an unexpected character.
NextSwitch ==
    /\ ppc = "switch"
    /\ IF scanner.current \in {"*", "#"}
         THEN /\ call' = [op |-> "ConsumeUntil", pred |-> isNewline,
                          by |-> "consumeComment", steps |-> 0,
                          avail |-> Remaining(text, scanner)]
              /\ ppc' = "comment"
              /\ UNCHANGED nextRet
       ELSE IF scanner.current = EOF
         THEN /\ ppc' = "loop"
              /\ UNCHANGED <<call, nextRet>>
       ELSE /\ ppc' = "idle"
            /\ nextRet' = "error"
            /\ UNCHANGED call
    /\ UNCHANGED <<text, scanner, captured, addonVars,
                   scanOthers>>

\* Parser.consumeNewline
consumeNewline(t, s) ==
    IF s.current # EOF THEN ConsumeRune(t, s, "\n")
    ELSE [s |-> s, err |-> "nil"]

\* ConsumeUntil has returned to consumeComment, which consumes the newline
\* and returns to the loop of Next.
CommentDone ==
    /\ call.op # "none"
    /\ call.by = "consumeComment"
    /\ ~Continues(call, scanner.current)
    /\ call' = NoCall
    /\ \E r \in {consumeNewline(text, scanner)} :
         /\ scanner' = r.s
         /\ IF r.err = "nil"
              THEN ppc' = "loop" /\ UNCHANGED nextRet
              ELSE ppc' = "idle" /\ nextRet' = "error"
    /\ UNCHANGED <<text, captured, addonVars,
                   scanOthers>>

NextScanner ==
    \/ CallAdvance
    \/ CallReadN
    \/ CallReadWhile
    \/ CallConsumeRune
    \/ CallParseString
    \/ CallConsumeWhile
    \/ CallConsumeUntil
    \/ ConsumeStep
    \/ ConsumeReturn
    \/ CallNext
    \/ NextLoop
    \/ NextWhitespaceDone
    \/ NextSwitch
    \/ CommentDone

SpecScanner == InitScanner /\ [][NextScanner]_vars

\* ---- what the Location has to be
Newlines(t, n) == {i \in 1..n : t[i] = "\n"}

LastNewline(t, n) ==
    IF Newlines(t, n) = {} THEN 0
    ELSE CHOOSE i \in Newlines(t, n) : \A j \in Newlines(t, n) : j <= i

\* C22: as long as Advance has been called at most once per rune of the
\* text, Location.RunePos is the number of runes consumed and the current
\* rune is the one at that rune offset, Location.BytePos is its byte offset,
\* Line is 1 plus the number of newlines consumed, Column is 1 plus the number
\* of runes consumed since the last newline, and FindLocation(text, BytePos)
\* returns that Line and that Column.
C22_PositionTracking ==
    LET loc == scanner.Location
        n == loc.RunePos
    IN  n <= Len(text) =>
          /\ scanner.current = ReadRune(text, n).ch
          /\ loc.BytePos = ByteLen(SubSeq(text, 1, n))
          /\ loc.Line = 1 + Cardinality(Newlines(text, n))
          /\ loc.Column = 1 + n - LastNewline(text, n)
          /\ FindLocation(text, loc.BytePos) =
                [Line |-> loc.Line, Column |-> loc.Column, err |-> "nil"]

\* C29: whatever the calls made, at or after the end of the input too,
\* Location.BytePos lies between 0 and len(text) and never decreases, and
\* every substring text[start:BytePos] taken is a slice of the text: taking
\* it does not panic.
C29_OffsetInText ==
    /\ [](/\ 0 <= scanner.Location.BytePos
          /\ scanner.Location.BytePos <= ByteLen(text)
          /\ ~captured.panic
          /\ 0 <= captured.start
          /\ captured.start <= captured.end
          /\ captured.end <= ByteLen(text))
    /\ [][scanner'.Location.BytePos >= scanner.Location.BytePos]_vars

\* C30: a ConsumeWhile or a ConsumeUntil stops at the end of the input at
\* the latest: it has called Advance at most once for each rune that was
\* left when it got called, be it called by the client, by Next or by
\* consumeComment, so that the comment that ends a text gets consumed and
\* Next comes to return io.EOF.
C30_Terminates ==
    call.op # "none" => call.steps <= call.avail

-----------------------------------------------------------------------------
\* Parser.parseAddons: the annotations in front of a directive.  An
\* annotation is taken as a whole: its kind, which the rune after the '@'
\* decides, and what parseAccrual or parsePerformance makes of it, a number
\* standing for the *Accrual or for the targets.

MaxAnnots == 3
Values == 1..2

Annotations ==
    [kind : {"accrue", "performance"}, val : Values]
        \cup {[kind |-> "other", val |-> 0]}

\* nil
Nil == 0

InitAddons ==
    /\ PartitionIdle
    /\ FilterIdle
    /\ ParserIdle
    /\ BalanceIdle
    /\ AstIdle
    /\ ReportIdle
    /\ SyntaxIdle
    /\ text = <<>>
    /\ scanner = <<>>
    /\ call = <<>>
    /\ captured = <<>>
    /\ ppc = "idle"
    /\ nextRet = "none"
    /\ \E n \in 0..MaxAnnots : annots \in [1..n -> Annotations]
    /\ addon = [accrual |-> Nil, targets |-> Nil]
    /\ addonErr = "nil"
    /\ addonPc = "parse"
    /\ addonPos = 0

\* addon.accrual = accrual
SetAccrual(a, v) == [a EXCEPT !.accrual = v]

\* addon.targets = targets
SetTargets(a, v) == [a EXCEPT !.targets = v]

\* An iteration of for p.scanner.Current() == '@': the annotation is parsed
\* and assigned; any rune but 'a' and 'p' after the '@' is an error, and
\* parseAddons returns nil with it.
AddonsLoop ==
    /\ addonPc = "parse"
    /\ addonPos < Len(annots)
    /\ addonPos' = addonPos + 1
    /\ LET a == annots[addonPos + 1]
       IN  CASE a.kind = "accrue" ->
                  /\ addon' = SetAccrual(addon, a.val)
                  /\ UNCHANGED <<addonErr, addonPc>>
             [] a.kind = "performance" ->
                  /\ addon' = SetTargets(addon, a.val)
                  /\ UNCHANGED <<addonErr, addonPc>>
             [] OTHER ->
                  /\ addon' = [accrual |-> Nil, targets |-> Nil]
                  /\ addonErr' = "unexpected character"
                  /\ addonPc' = "done"
    /\ UNCHANGED <<annots, scannerVars, scanOthers>>

\* The current rune is no '@': return addon, nil.
AddonsReturn ==
    /\ addonPc = "parse"
    /\ addonPos = Len(annots)
    /\ addonPc' = "done"
    /\ UNCHANGED <<annots, addon, addonErr, addonPos, scannerVars, scanOthers>>

NextAddons ==
    \/ AddonsLoop
    \/ AddonsReturn

SpecAddons == InitAddons /\ [][NextAddons]_vars

\* The annotations of kind k among the first n.
OfKind(as, n, k) == {i \in 1..n : as[i].kind = k}

\* The first annotation of kind k, 0 if there is none.
FirstOf(as, k) ==
    IF OfKind(as, Len(as), k) = {} THEN 0
    ELSE CHOOSE i \in OfKind(as, Len(as), k) :
             \A j \in OfKind(as, Len(as), k) : i <= j

\* C21: once parseAddons has read a second @accrue, or a second
\* @performance, it has failed with 'duplicate accrue annotation', or with
\* 'duplicate performance annotation'; and an annotation that has been
\* assigned stays the first of its kind, no later one overwrites it.
C21_DuplicatesRejected ==
    /\ Cardinality(OfKind(annots, addonPos, "accrue")) >= 2
          => addonErr = "duplicate accrue annotation"
    /\ Cardinality(OfKind(annots, addonPos, "performance")) >= 2
          => addonErr = "duplicate performance annotation"
    /\ (addonPc # "idle" /\ addon.accrual # Nil)
          => addon.accrual = annots[FirstOf(annots, "accrue")].val
    /\ (addonPc # "idle" /\ addon.targets # Nil)
          => addon.targets = annots[FirstOf(annots, "performance")].val

====
